---------------------------- MODULE Spec2Model ----------------------------
(***************************************************************************)
(* A model of serenity-commands: the derive macros (macros/src) that turn  *)
(* a declared type into a schema builder and a parser, and the runtime     *)
(* BasicOption implementations (src/lib.rs) those parsers bottom out in.   *)
(*                                                                         *)
(* The macros and the generated parsers are pure functions.  Each          *)
(* specification below draws a declaration (the darling `Args` of one      *)
(* derive) in Init and then applies the generated operations to inputs     *)
(* drawn from bounded sets:                                                *)
(*   decl      the declared type the derive was applied to                 *)
(*   expanded  what macro expansion made of it (Nothing before it ran)     *)
(*   input     the argument of the last call                               *)
(*   result    what the last call returned                                 *)
(*   pc        the operation that ran last ("init" before any)             *)
(*                                                                         *)
(* Strings are sequences of one-character strings, so that case            *)
(* conversion, trimming and length are computed, not assumed.              *)
(* Values are tagged records [k |-> tag, v |-> payload].                   *)
(***************************************************************************)
EXTENDS Integers, Sequences, FiniteSets, TLC

VARIABLES decl, expanded, input, result, pc

vars == <<decl, expanded, input, result, pc>>

Nothing == [k |-> "Nothing", v |-> <<>>]

(***************************************************************************)
(* Characters and case conversion (heck's ToKebabCase / ToTitleCase as     *)
(* used by utils.rs).                                                      *)
(***************************************************************************)
UpperSeq ==
    <<"A", "B", "C", "D", "E", "F", "G", "H", "I", "J", "K", "L", "M",
      "N", "O", "P", "Q", "R", "S", "T", "U", "V", "W", "X", "Y", "Z">>

LowerSeq ==
    <<"a", "b", "c", "d", "e", "f", "g", "h", "i", "j", "k", "l", "m",
      "n", "o", "p", "q", "r", "s", "t", "u", "v", "w", "x", "y", "z">>

DigitSeq == <<"0", "1", "2", "3", "4", "5", "6", "7", "8", "9">>

IsUpper(c) == \E i \in DOMAIN UpperSeq : UpperSeq[i] = c

IsLower(c) == \E i \in DOMAIN LowerSeq : LowerSeq[i] = c

IsDigit(c) == \E i \in DOMAIN DigitSeq : DigitSeq[i] = c

IsAlphanumeric(c) == IsUpper(c) \/ IsLower(c) \/ IsDigit(c)

ToLowerChar(c) ==
    IF IsUpper(c)
    THEN LowerSeq[CHOOSE i \in DOMAIN UpperSeq : UpperSeq[i] = c]
    ELSE c

ToUpperChar(c) ==
    IF IsLower(c)
    THEN UpperSeq[CHOOSE i \in DOMAIN LowerSeq : LowerSeq[i] = c]
    ELSE c

ToLowerStr(s) == [i \in DOMAIN s |-> ToLowerChar(s[i])]

\* heck capitalises a word: first character upper case, the rest lower case.
Capitalize(s) ==
    [i \in DOMAIN s |-> IF i = 1 THEN ToUpperChar(s[i]) ELSE ToLowerChar(s[i])]

\* The pieces of s between non-alphanumeric characters (empty pieces kept;
\* SplitWord yields no word for them).
RECURSIVE SplitSeparators(_, _)
SplitSeparators(s, cur) ==
    IF s = <<>> THEN <<cur>>
    ELSE IF IsAlphanumeric(Head(s))
         THEN SplitSeparators(Tail(s), Append(cur, Head(s)))
         ELSE <<cur>> \o SplitSeparators(Tail(s), <<>>)

\* heck::transform's inner loop over one separator-free piece w: i is the
\* current character, init the start of the word being collected, mode the
\* case of the characters seen since the last boundary.
RECURSIVE SplitWord(_, _, _, _)
SplitWord(w, i, init, mode) ==
    IF i > Len(w) THEN <<>>
    ELSE IF i = Len(w) THEN <<SubSeq(w, init, Len(w))>>
    ELSE LET c == w[i]
             next == w[i + 1]
             next_mode == IF IsLower(c) THEN "Lowercase"
                          ELSE IF IsUpper(c) THEN "Uppercase"
                          ELSE mode
         IN  IF next_mode = "Lowercase" /\ IsUpper(next)
             THEN <<SubSeq(w, init, i)>> \o SplitWord(w, i + 1, i + 1, "Boundary")
             ELSE IF mode = "Uppercase" /\ IsUpper(c) /\ IsLower(next)
             THEN <<SubSeq(w, init, i - 1)>> \o SplitWord(w, i + 1, i, "Boundary")
             ELSE SplitWord(w, i + 1, init, next_mode)

RECURSIVE ConcatAll(_)
ConcatAll(ss) == IF ss = <<>> THEN <<>> ELSE Head(ss) \o ConcatAll(Tail(ss))

Words(s) ==
    LET pieces == SplitSeparators(s, <<>>)
    IN  ConcatAll([i \in DOMAIN pieces |-> SplitWord(pieces[i], 1, 1, "Boundary")])

RECURSIVE JoinWith(_, _)
JoinWith(ws, sep) ==
    IF ws = <<>> THEN <<>>
    ELSE IF Len(ws) = 1 THEN Head(ws)
    ELSE Head(ws) \o sep \o JoinWith(Tail(ws), sep)

to_kebab_case_str(s) ==
    LET ws == Words(s) IN JoinWith([i \in DOMAIN ws |-> ToLowerStr(ws[i])], <<"-">>)

to_title_case_str(s) ==
    LET ws == Words(s) IN JoinWith([i \in DOMAIN ws |-> Capitalize(ws[i])], <<" ">>)

\* heck's ToPascalCase: every word capitalised, nothing between them.
to_pascal_case_str(s) ==
    LET ws == Words(s) IN ConcatAll([i \in DOMAIN ws |-> Capitalize(ws[i])])

\* str::strip_prefix("r#").unwrap_or(ident)
StripRawPrefix(s) ==
    IF Len(s) >= 2 /\ s[1] = "r" /\ s[2] = "#" THEN SubSeq(s, 3, Len(s)) ELSE s

\* IdentExt::to_kebab_case / to_title_case
to_kebab_case(ident) == to_kebab_case_str(StripRawPrefix(ident))

to_title_case(ident) == to_title_case_str(StripRawPrefix(ident))

\* An absent attribute (Option::None in the darling structs).
NoAttr == [k |-> "NoAttr", v |-> <<>>]

Attr(x) == [k |-> "Attr", v |-> x]

\* utils::kebab_name / utils::title_name: the explicit name, else the
\* converted identifier.
kebab_name(ident, name) == IF name = NoAttr THEN to_kebab_case(ident) ELSE name.v

title_name(ident, name) == IF name = NoAttr THEN to_title_case(ident) ELSE name.v

\* i64::to_string: decimal digits, with a leading minus sign.
RECURSIVE NatToStr(_)
NatToStr(n) ==
    IF n < 10 THEN <<DigitSeq[n + 1]>>
    ELSE NatToStr(n \div 10) \o <<DigitSeq[(n % 10) + 1]>>

IntToStr(n) == IF n < 0 THEN <<"-">> \o NatToStr(0 - n) ELSE NatToStr(n)

(***************************************************************************)
(* The wire format (serenity's CommandDataOptionValue) and the crate's     *)
(* Error and Result types (src/lib.rs).                                    *)
(***************************************************************************)
\* A CommandDataOptionValue: its variant and the payload it carries.
Val(kind, v) == [k |-> kind, v |-> v]

\* CommandDataOptionValue::Autocomplete { kind, value }
AutocompleteVal(akind, value) ==
    [k |-> "Autocomplete", v |-> [akind |-> akind, value |-> value]]

\* CommandDataOptionValue::kind()
ValueKind(val) == IF val.k = "Autocomplete" THEN val.v.akind ELSE val.k

\* Option<&CommandDataOptionValue>
NoneV == [k |-> "None", v |-> <<>>]

SomeV(x) == [k |-> "Some", v |-> x]

\* Result<T>
Ok(x) == [k |-> "Ok", v |-> x]

Err(e) == [k |-> "Err", v |-> e]

\* The `?` operator: an Err is returned as it is, an Ok's content is handed
\* to the rest of the function.
Try(r, rest(_)) == IF r.k = "Err" THEN r ELSE rest(r.v)

\* enum Error: the variant, then its fields.
Error(e, x, y) == [k |-> e, v |-> <<x, y>>]

MissingRequiredCommandOption == Error("MissingRequiredCommandOption", <<>>, <<>>)

IncorrectCommandOptionType(got, expected) ==
    Error("IncorrectCommandOptionType", got, expected)

IncorrectCommandOptionCount(got, expected) ==
    Error("IncorrectCommandOptionCount", got, expected)

UnknownCommand(name) == Error("UnknownCommand", name, <<>>)

UnknownCommandOption(name) == Error("UnknownCommandOption", name, <<>>)

UnknownAutocompleteOption(name) == Error("UnknownAutocompleteOption", name, <<>>)

UnexpectedAutocompleteOption == Error("UnexpectedAutocompleteOption", <<>>, <<>>)

MissingAutocompleteOption == Error("MissingAutocompleteOption", <<>>, <<>>)

UnknownChoice(s) == Error("UnknownChoice", s, <<>>)

Custom(msg) == Error("Custom", msg, <<>>)

\* A parsed Rust value: its type (or enum variant) and its content.
TV(ty, v) == [k |-> ty, v |-> v]

(***************************************************************************)
(* The built-in option types (src/lib.rs, impl_command_option!,            *)
(* impl_number_command_option!, impl_integer_command_option!, char).       *)
(***************************************************************************)
\* impl_command_option! { String(String), Boolean(bool), ... }
CloneTypes ==
    {"String", "bool", "UserId", "ChannelId", "RoleId", "GenericId", "AttachmentId"}

NumberTypes == {"f32", "f64"}

UnsignedTypes == {"u8", "u16", "u32", "u64", "u128", "usize"}

SignedTypes == {"i8", "i16", "i32", "i64", "i128", "isize"}

IntegerTypes == UnsignedTypes \cup SignedTypes

PrimNames == CloneTypes \cup NumberTypes \cup IntegerTypes \cup {"char"}

\* The CommandOptionType each built-in type is registered and parsed as.
PrimKind(n) ==
    CASE n = "String" -> "String"
      [] n = "bool" -> "Boolean"
      [] n = "UserId" -> "User"
      [] n = "ChannelId" -> "Channel"
      [] n = "RoleId" -> "Role"
      [] n = "GenericId" -> "Mentionable"
      [] n = "AttachmentId" -> "Attachment"
      [] n \in NumberTypes -> "Number"
      [] n \in IntegerTypes -> "Integer"
      [] n = "char" -> "String"

\* Widths in the model: the 8, 16, 32, 64 and 128 bit types keep their
\* order (narrower than, as wide as, wider than the wire's i64) on a
\* scale the checker can enumerate.
IntBits(n) ==
    CASE n \in {"u8", "i8"} -> 2
      [] n \in {"u16", "i16"} -> 3
      [] n \in {"u32", "i32"} -> 4
      [] n \in {"u64", "i64", "usize", "isize"} -> 5
      [] n \in {"u128", "i128"} -> 6

Pow2(b) == 2 ^ b

\* The values of an integer type.
IntRange(n) ==
    IF n \in SignedTypes
    THEN (0 - Pow2(IntBits(n) - 1)) .. (Pow2(IntBits(n) - 1) - 1)
    ELSE 0 .. (Pow2(IntBits(n)) - 1)

\* Mutation of AsInteger: the cast forgets that signed targets reinterpret
\* the top bit.
AsInteger_NoSign(v, n) == v % Pow2(IntBits(n))

\* Mutation of AsInteger: a value outside the target's range is clamped to
\* the nearest bound.
AsInteger_Saturates(v, n) ==
    IF v \in IntRange(n) THEN v
    ELSE IF v < 0 THEN (IF n \in SignedTypes THEN 0 - Pow2(IntBits(n) - 1) ELSE 0)
    ELSE (IF n \in SignedTypes THEN Pow2(IntBits(n) - 1) - 1 ELSE Pow2(IntBits(n)) - 1)

\* `*v as T` for an i64 v: two's complement truncation or sign extension.
AsInteger(v, n) ==
    LET m == v % Pow2(IntBits(n))
    IN  IF n \in SignedTypes /\ m >= Pow2(IntBits(n) - 1)
        THEN m - Pow2(IntBits(n))
        ELSE m

Abs(v) == IF v < 0 THEN 0 - v ELSE v

RECURSIVE BitLen(_)
BitLen(n) == IF n = 0 THEN 0 ELSE 1 + BitLen(n \div 2)

\* Round v to the nearest value with at most m significant bits, ties to
\* the even mantissa (IEEE 754 narrowing).
RoundToBits(v, m) ==
    LET a == Abs(v)
        e == BitLen(a) - m
    IN  IF e <= 0 THEN v
        ELSE LET q == a \div Pow2(e)
                 r == a % Pow2(e)
                 half == Pow2(e - 1)
                 up == IF r > half \/ (r = half /\ q % 2 = 1) THEN 1 ELSE 0
                 n == (q + up) * Pow2(e)
             IN  IF v < 0 THEN 0 - n ELSE n

\* `*v as T` for an f64 v.  Numbers are modelled by the integers an f64
\* holds exactly; f32 keeps fewer significant bits than f64.
AsNumber(v, n) == IF n = "f32" THEN RoundToBits(v, 2) ELSE v

\* impl_command_option!: from_value
CloneFromValue(n, value) ==
    IF value = NoneV THEN Err(MissingRequiredCommandOption)
    ELSE IF value.v.k = PrimKind(n) THEN Ok(TV(n, value.v.v))
    ELSE Err(IncorrectCommandOptionType(ValueKind(value.v), PrimKind(n)))

\* impl_number_command_option!: from_value
NumberFromValue(n, value) ==
    IF value = NoneV THEN Err(MissingRequiredCommandOption)
    ELSE IF value.v.k = "Number" THEN Ok(TV(n, AsNumber(value.v.v, n)))
    ELSE Err(IncorrectCommandOptionType(ValueKind(value.v), "Number"))

\* Mutation of IntegerFromValue: an absent option parses to zero.
IntegerFromValue_Defaults(n, value) ==
    IF value = NoneV THEN Ok(TV(n, 0))
    ELSE IF value.v.k = "Integer" THEN Ok(TV(n, AsInteger(value.v.v, n)))
    ELSE Err(IncorrectCommandOptionType(ValueKind(value.v), "Integer"))

\* impl_integer_command_option!: from_value
IntegerFromValue(n, value) ==
    IF value = NoneV THEN Err(MissingRequiredCommandOption)
    ELSE IF value.v.k = "Integer" THEN Ok(TV(n, AsInteger(value.v.v, n)))
    ELSE Err(IncorrectCommandOptionType(ValueKind(value.v), "Integer"))

ExpectedSingleCharacter ==
    <<"e", "x", "p", "e", "c", "t", "e", "d", " ", "s", "i", "n", "g", "l", "e",
      " ", "c", "h", "a", "r", "a", "c", "t", "e", "r">>

\* impl BasicOption for char: from_value
CharFromValue(value) ==
    LET s == CloneFromValue("String", value)
    IN  IF s.k = "Err" THEN s
        ELSE IF Len(s.v.v) = 1 THEN Ok(TV("char", s.v.v[1]))
        ELSE Err(Custom(ExpectedSingleCharacter))

PrimFromValue(n, value) ==
    CASE n \in CloneTypes -> CloneFromValue(n, value)
      [] n \in NumberTypes -> NumberFromValue(n, value)
      [] n \in IntegerTypes -> IntegerFromValue(n, value)
      [] n = "char" -> CharFromValue(value)

(***************************************************************************)
(* Types implementing BasicOption.  A type is [k |-> class, v |-> ...]:    *)
(*   Prim           v is the name of a built-in type                       *)
(*   Option         v is the wrapped type                                  *)
(*   PartialOption  v is the wrapped type                                  *)
(*   Derived        v is the Args of a #[derive(BasicOption)] type         *)
(***************************************************************************)
Prim(n) == [k |-> "Prim", v |-> n]

OptionOf(t) == [k |-> "Option", v |-> t]

PartialOptionOf(t) == [k |-> "PartialOption", v |-> t]

Derived(args) == [k |-> "Derived", v |-> args]

\* syn::Lit as carried by #[option(value = ...)]
LitStr(s) == [k |-> "LitStr", v |-> s]

LitInt(n) == [k |-> "LitInt", v |-> n]

LitFloat(n) == [k |-> "LitFloat", v |-> n]

\* basic_option::ChoiceVariant
ChoiceVariant(ident, name, value) == [ident |-> ident, name |-> name, value |-> value]

\* basic_option::Args for an enum of unit variants, and for a newtype struct
ChoiceArgs(ident, option_type, variants) ==
    [ident |-> ident, data |-> "Enum", option_type |-> option_type,
     variants |-> variants, ty |-> Nothing, builder |-> NoAttr]

NewtypeArgs(ident, ty) ==
    [ident |-> ident, data |-> "Struct", option_type |-> NoAttr,
     variants |-> <<>>, ty |-> ty, builder |-> NoAttr]

\* ChoiceVariant::name
ChoiceVariant_name(cv) == title_name(cv.ident, cv.name)

\* ChoiceVariant::value
ChoiceVariant_value(cv) ==
    IF cv.value = NoAttr THEN LitStr(to_kebab_case(cv.ident)) ELSE cv.value.v

\* OptionType::command_option_type
command_option_type(option_type) == option_type

\* OptionType::partial_type
partial_type(option_type) ==
    CASE option_type = "String" -> Prim("String")
      [] option_type = "Integer" -> Prim("i64")
      [] option_type = "Number" -> Prim("f64")

\* The literal a pattern or a choice of the given option type must be for
\* the generated code to type-check.
LitOfOptionType(option_type) ==
    CASE option_type = "String" -> "LitStr"
      [] option_type = "Integer" -> "LitInt"
      [] option_type = "Number" -> "LitFloat"

\* Mutation of PartialType: every type is its own partial type.
PartialType_Self(t) == t

\* BasicOption::Partial
RECURSIVE PartialType(_)
PartialType(t) ==
    CASE t.k = "Prim" ->
            IF t.v \in IntegerTypes THEN Prim("i64")
            ELSE IF t.v = "char" THEN Prim("String")
            ELSE t
      [] t.k = "Option" -> PartialType(t.v)
      [] t.k = "PartialOption" -> PartialType(PartialType(t.v))
      [] t.k = "Derived" ->
            IF t.v.data = "Struct" THEN PartialType(t.v.ty)
            ELSE IF t.v.option_type = NoAttr THEN Prim("String")
            ELSE partial_type(t.v.option_type.v)

\* ToString::to_string of the unmatched choice (a &str, an &i64 or an &f64).
ChoiceToString(option_type, payload) ==
    IF option_type = "String" THEN payload ELSE IntToStr(payload)

\* Mutation of ChoiceMatch: an unmatched value falls back to the last
\* variant instead of reaching the `unknown` arm.
RECURSIVE ChoiceMatch_Defaults(_, _, _)
ChoiceMatch_Defaults(args, variants, payload) ==
    IF Len(variants) = 1 \/ ChoiceVariant_value(Head(variants)).v = payload
    THEN Ok(TV(args.ident, Head(variants).ident))
    ELSE ChoiceMatch_Defaults(args, Tail(variants), payload)

\* The arms ChoiceVariant::from_value generates, tried in declaration
\* order, then the `unknown` arm.
RECURSIVE ChoiceMatch(_, _, _)
ChoiceMatch(args, variants, payload) ==
    IF variants = <<>>
    THEN Err(UnknownChoice(ChoiceToString(args.option_type.v, payload)))
    ELSE IF ChoiceVariant_value(Head(variants)).v = payload
         THEN Ok(TV(args.ident, Head(variants).ident))
         ELSE ChoiceMatch(args, Tail(variants), payload)

\* The from_value that basic_option::Args::from_value generates for an enum.
ChoiceFromValue(args, value) ==
    IF value = NoneV THEN Err(MissingRequiredCommandOption)
    ELSE IF value.v.k # command_option_type(args.option_type.v)
         THEN Err(IncorrectCommandOptionType(ValueKind(value.v),
                                             command_option_type(args.option_type.v)))
         ELSE ChoiceMatch(args, args.variants, value.v.v)

RECURSIVE FromValue(_, _)

\* Mutation of OptionFromValue: T::from_value is called even without a
\* value.
OptionFromValue_AlwaysDelegates(t, value) ==
    LET r == FromValue(t, value)
    IN  IF r.k = "Ok" THEN Ok(TV("Some", r.v)) ELSE r

\* impl BasicOption for Option<T>: from_value
OptionFromValue(t, value) ==
    IF value = NoneV THEN Ok(TV("None", <<>>))
    ELSE LET r == FromValue(t, SomeV(value.v))
         IN  IF r.k = "Ok" THEN Ok(TV("Some", r.v)) ELSE r

\* Mutation of PartialOptionFromValue: the full parse's error is
\* propagated with `?`.
PartialOptionFromValue_Propagates(t, value) ==
    LET full == FromValue(t, value)
    IN  IF full.k = "Ok" THEN Ok(TV("Value", full.v)) ELSE full

\* impl BasicOption for PartialOption<T>: from_value
PartialOptionFromValue(t, value) ==
    LET full == FromValue(t, value)
    IN  IF full.k = "Ok" THEN Ok(TV("Value", full.v))
        ELSE LET part == FromValue(PartialType(t), value)
             IN  IF part.k = "Err" THEN part
                 ELSE Ok(TV("Partial", <<part.v, full.v>>))

\* The from_value that basic_option::Args::from_value generates for a
\* newtype struct.
NewtypeFromValue(args, value) ==
    LET r == FromValue(args.ty, value)
    IN  IF r.k = "Ok" THEN Ok(TV(args.ident, r.v)) ELSE r

\* <T as BasicOption>::from_value
FromValue(t, value) ==
    CASE t.k = "Prim" -> PrimFromValue(t.v, value)
      [] t.k = "Option" -> OptionFromValue(t.v, value)
      [] t.k = "PartialOption" -> PartialOptionFromValue(t.v, value)
      [] t.k = "Derived" ->
            IF t.v.data = "Struct" THEN NewtypeFromValue(t.v, value)
            ELSE ChoiceFromValue(t.v, value)

(***************************************************************************)
(* Schemas (serenity's CreateCommandOption and CreateCommand builders).    *)
(***************************************************************************)
\* CreateCommandOption::new(kind, name, description)
NewOption(kind, name, description) ==
    [kind |-> kind, name |-> name, description |-> description,
     required |-> FALSE, autocomplete |-> FALSE,
     min_length |-> NoneV, max_length |-> NoneV,
     choices |-> <<>>, options |-> <<>>]

\* CreateCommand::new(name)
NewCommand(name) ==
    [name |-> name, description |-> NoneV, kind |-> "ChatInput", options |-> <<>>]

\* #[command(builder(...))] / #[option(builder(...))]: the method calls
\* appended to the generated builder expression, applied in order.  A call
\* is [method |-> field set, arg |-> value].
RECURSIVE ApplyBuilder(_, _)
ApplyBuilder(schema, methods) ==
    IF methods = <<>> THEN schema
    ELSE ApplyBuilder([schema EXCEPT ![Head(methods).method] = Head(methods).arg],
                      Tail(methods))

builder_methods(schema, builder) ==
    IF builder = NoAttr THEN schema ELSE ApplyBuilder(schema, builder.v)

\* Mutation of create_option_choice: the choice registers the kebab-cased
\* identifier and ignores the value override.
create_option_choice_IgnoresValue(cv) ==
    [name |-> ChoiceVariant_name(cv), value |-> LitStr(to_kebab_case(cv.ident))]

\* ChoiceVariant::create_option_choice
create_option_choice(cv) == [name |-> ChoiceVariant_name(cv), value |-> ChoiceVariant_value(cv)]

\* The create_option that basic_option::Args::create_option generates for
\* an enum.
ChoiceCreateOption(args, name, description) ==
    LET new == NewOption(command_option_type(args.option_type.v), name, description)
        withChoices ==
            [new EXCEPT !.choices =
                [i \in DOMAIN args.variants |-> create_option_choice(args.variants[i])]]
    IN  builder_methods([withChoices EXCEPT !.required = TRUE], args.builder)

\* <T as BasicOption>::create_option
RECURSIVE CreateOption(_, _, _)
CreateOption(t, name, description) ==
    CASE t.k = "Prim" ->
            IF t.v = "char"
            THEN [NewOption("String", name, description) EXCEPT
                    !.min_length = SomeV(1), !.max_length = SomeV(1), !.required = TRUE]
            ELSE [NewOption(PrimKind(t.v), name, description) EXCEPT !.required = TRUE]
      [] t.k = "Option" ->
            [CreateOption(t.v, name, description) EXCEPT !.required = FALSE]
      [] t.k = "PartialOption" -> CreateOption(t.v, name, description)
      [] t.k = "Derived" ->
            IF t.v.data = "Struct" THEN CreateOption(t.v.ty, name, description)
            ELSE ChoiceCreateOption(t.v, name, description)

(***************************************************************************)
(* SpecOption: the BasicOption implementations of src/lib.rs applied to    *)
(* wire values.                                                            *)
(***************************************************************************)
MaxStrLen == 2

MaxTypeDepth == 2

\* All strings over {a, b} of length at most n.
RECURSIVE StringsUpTo(_)
StringsUpTo(n) ==
    IF n = 0 THEN {<<>>}
    ELSE LET shorter == StringsUpTo(n - 1)
         IN  shorter \cup {Append(s, c) : s \in shorter, c \in {"a", "b"}}

\* The payload of the wire's Integer (an i64) and Number (an f64).
WireIntegers == IntRange("i64")

WireNumbers == -9 .. 9

\* The example of the BasicOption derive's documentation.
Medal ==
    ChoiceArgs(<<"M", "e", "d", "a", "l">>, Attr("Integer"),
        << ChoiceVariant(<<"G", "o", "l", "d">>, Attr(<<"G", "o", "l", "d">>), Attr(LitInt(1))),
           ChoiceVariant(<<"S", "i", "l", "v", "e", "r">>,
                         Attr(<<"S", "i", "l", "v", "e", "r">>), Attr(LitInt(2))),
           ChoiceVariant(<<"B", "r", "o", "n", "z", "e">>,
                         Attr(<<"B", "r", "o", "n", "z", "e">>), Attr(LitInt(3))) >>)

BaseTypes == {Prim(n) : n \in PrimNames} \cup {Derived(Medal)}

RECURSIVE TypesUpTo(_)
TypesUpTo(d) ==
    IF d = 0 THEN BaseTypes
    ELSE LET inner == TypesUpTo(d - 1)
         IN  inner \cup {OptionOf(t) : t \in inner} \cup {PartialOptionOf(t) : t \in inner}

OptionTypes == TypesUpTo(MaxTypeDepth)

WireValues ==
    {Val("String", s) : s \in StringsUpTo(MaxStrLen)}
        \cup {Val("Integer", i) : i \in WireIntegers}
        \cup {Val("Number", x) : x \in WireNumbers}
        \cup {Val("Boolean", b) : b \in BOOLEAN}
        \cup {Val(kind, id) : kind \in {"User", "Channel", "Role", "Mentionable", "Attachment"},
                              id \in {1, 2}}
        \cup {AutocompleteVal(kind, <<"a">>) : kind \in {"String", "Integer"}}
        \cup {Val("SubCommand", <<>>)}

OptionInputs == {NoneV} \cup {SomeV(w) : w \in WireValues}

InitOption ==
    /\ decl \in OptionTypes
    /\ expanded = Nothing
    /\ input = Nothing
    /\ result = Nothing
    /\ pc = "init"

\* A call of <decl as BasicOption>::from_value(value).
BasicOption_from_value ==
    /\ \E value \in OptionInputs :
          /\ input' = value
          /\ result' = FromValue(decl, value)
    /\ pc' = "from_value"
    /\ UNCHANGED <<decl, expanded>>

\* A call of <decl as BasicOption>::create_option(name, description).
BasicOption_create_option ==
    /\ \E name \in StringsUpTo(1) :
          /\ input' = name
          /\ result' = CreateOption(decl, name, <<"d">>)
    /\ pc' = "create_option"
    /\ UNCHANGED <<decl, expanded>>

NextOption == BasicOption_from_value \/ BasicOption_create_option

SpecOption == InitOption /\ [][NextOption]_vars

\* The values of a built-in type that a wire value of its kind can carry:
\* the payload itself when it is a value of the type.
IsValueOf(n, payload) ==
    CASE n \in IntegerTypes -> payload \in IntRange(n)
      [] n = "f32" -> \E m \in 0 .. 3, e \in 0 .. 4 : Abs(payload) = m * Pow2(e)
      [] n = "char" -> Len(payload) = 1
      [] OTHER -> TRUE

\* C3: for every built-in type T and value t of T, the wire value of T's
\* kind carrying t parses back to Ok(t).
C3_PrimitiveRoundTrip ==
    (/\ pc = "from_value"
     /\ decl.k = "Prim"
     /\ input.k = "Some"
     /\ input.v.k = PrimKind(decl.v)
     /\ IsValueOf(decl.v, input.v.v))
        => result = Ok(TV(decl.v, IF decl.v = "char" THEN input.v.v[1] ELSE input.v.v))

\* A negative Integer parsed as an i8.
C3_Witness ==
    /\ pc = "from_value"
    /\ decl = Prim("i8")
    /\ input = SomeV(Val("Integer", -2))
    /\ result = Ok(TV("i8", -2))

\* C4: Option<T>::from_value(None) is Ok(None) whatever T is, and
\* Option<T>::from_value(Some(v)) is T::from_value(Some(v)) with an Ok
\* value wrapped in Some and an Err passed through.
C4_OptionFromValue ==
    (pc = "from_value" /\ decl.k = "Option") =>
        /\ input = NoneV =>
              /\ result = Ok(TV("None", <<>>))
              /\ result # Err(MissingRequiredCommandOption)
        /\ input # NoneV =>
              LET inner == FromValue(decl.v, input)
              IN  /\ inner.k = "Ok" => result = Ok(TV("Some", inner.v))
                  /\ inner.k = "Err" => result = inner

\* Option<i64> given no value, although i64 alone reports it missing.
C4_Witness ==
    /\ pc = "from_value"
    /\ decl = OptionOf(Prim("i64"))
    /\ input = NoneV
    /\ result = Ok(TV("None", <<>>))
    /\ FromValue(decl.v, input) = Err(MissingRequiredCommandOption)

\* C6: PartialOption<T>::from_value is Ok(Value(x)) when T parses to x, and
\* Ok(Partial(p, e)) when T fails with e but T::Partial parses to p.
C6_PartialOptionFromValue ==
    (pc = "from_value" /\ decl.k = "PartialOption") =>
        LET full == FromValue(decl.v, input)
            part == FromValue(PartialType(decl.v), input)
        IN  /\ full.k = "Ok" => result = Ok(TV("Value", full.v))
            /\ (full.k = "Err" /\ part.k = "Ok") =>
                  result = Ok(TV("Partial", <<part.v, full.v>>))

\* A two-character string is no char but is a String: the partial value
\* comes with the char parser's error.
C6_Witness ==
    /\ pc = "from_value"
    /\ decl = PartialOptionOf(Prim("char"))
    /\ input = SomeV(Val("String", <<"a", "b">>))
    /\ result = Ok(TV("Partial", <<TV("String", <<"a", "b">>), Custom(ExpectedSingleCharacter)>>))

\* C16 as stated: every built-in primitive type is its own partial type, so
\* taking the partial type again changes nothing.
C16_PrimitiveIsOwnPartial ==
    /\ decl.k = "Prim" => PartialType(decl) = decl
    /\ PartialType(PartialType(decl)) = PartialType(decl)

\* C16, amended: the partial type of a built-in primitive is i64 for the
\* integer types, String for char, and the type itself otherwise; the
\* partial type of every type is one of the primitives that are their own
\* partial type, so taking the partial type again changes nothing.
C16_PartialFixedPoint ==
    /\ decl.k = "Prim" =>
          PartialType(decl) =
              IF decl.v \in {"u8", "u16", "u32", "u64", "u128", "usize",
                             "i8", "i16", "i32", "i64", "i128", "isize"}
              THEN Prim("i64")
              ELSE IF decl.v = "char" THEN Prim("String") ELSE decl
    /\ PartialType(decl).k = "Prim"
    /\ PartialType(decl).v \notin {"u8", "u16", "u32", "u64", "u128", "usize",
                                    "i8", "i16", "i32", "i128", "isize", "char"}
    /\ PartialType(PartialType(decl)) = PartialType(decl)
    /\ (pc = "from_value" /\ decl.k = "PartialOption"
           /\ result.k = "Ok" /\ result.v.k = "Partial")
          => FromValue(PartialType(decl), input) = Ok(result.v.v[1])

\* PartialOption<Option<char>> given a two-character string: the partial
\* value is parsed as a String, the partial type of char, which is the
\* partial type of the whole type and its own partial type.
C16_Witness ==
    /\ pc = "from_value"
    /\ decl = PartialOptionOf(OptionOf(Prim("char")))
    /\ input = SomeV(Val("String", <<"a", "b">>))
    /\ result.k = "Ok" /\ result.v.k = "Partial"
    /\ result.v.v[1] = TV("String", <<"a", "b">>)
    /\ PartialType(decl) = Prim("String")
    /\ PartialType(Prim("char")) # Prim("char")

\* A wire Integer has been parsed into a built-in integer type.
ParsedInteger ==
    /\ pc = "from_value"
    /\ decl.k = "Prim"
    /\ decl.v \in IntegerTypes
    /\ input.k = "Some"
    /\ input.v.k = "Integer"

\* C26: a wire Integer parsed into an integer type of width w never gives
\* an error: the result is the value of the type congruent to the payload
\* modulo 2^w, which is the payload itself exactly when the payload is a
\* value of the type.
C26_IntegerWraps ==
    ParsedInteger =>
        /\ result.k = "Ok"
        /\ result.v.k = decl.v
        /\ result.v.v \in IntRange(decl.v)
        /\ (result.v.v - input.v.v) % Pow2(IntBits(decl.v)) = 0
        /\ result.v.v = input.v.v <=> input.v.v \in IntRange(decl.v)

\* The payload one above the largest value of the narrowest unsigned type
\* parses to zero.
C26_Witness ==
    /\ ParsedInteger
    /\ decl.v = "u8"
    /\ input.v.v = Pow2(IntBits("u8"))
    /\ result = Ok(TV("u8", 0))

(***************************************************************************)
(* SpecChoice: #[derive(BasicOption)] on an enum of unit variants          *)
(* (macros/src/basic_option.rs): expansion, then the generated             *)
(* create_option and from_value.                                           *)
(***************************************************************************)
MaxChoices == 2

\* What one derive made of its input: the errors pushed to the darling
\* accumulator, whether the implementation was emitted (finish_with), and
\* whether the emitted code type-checks.
Expansion(errors, typechecks) ==
    [errors |-> errors, emitted |-> errors = <<>>, compiles |-> errors = <<>> /\ typechecks]

\* Every literal used as a pattern and as a choice has the type of the
\* option's payload.
ChoiceTypeChecks(args) ==
    \A i \in DOMAIN args.variants :
        ChoiceVariant_value(args.variants[i]).k = LitOfOptionType(args.option_type.v)

\* impl ToTokens for basic_option::Args
BasicOptionExpand(args) ==
    IF args.data = "Struct" THEN Expansion(<<>>, TRUE)
    ELSE IF args.option_type = NoAttr
         THEN Expansion(<< "missing #[option(option_type = ...)] attribute",
                           "missing #[option(option_type = ...)] attribute" >>, FALSE)
         ELSE Expansion(<<>>, ChoiceTypeChecks(args))

ChoiceIdents ==
    { <<"G", "o", "l", "d">>, <<"S", "i", "l", "v", "e", "r">>,
      <<"H", "i", "g", "h", "S", "c", "o", "r", "e">> }

ChoiceValues ==
    { NoAttr, Attr(LitInt(1)), Attr(LitInt(2)), Attr(LitFloat(2)),
      Attr(LitStr(<<"a">>)), Attr(LitStr(<<"g", "o", "l", "d">>)) }

ChoiceVariants ==
    { ChoiceVariant(ident, NoAttr, value) : ident \in ChoiceIdents, value \in ChoiceValues }

\* Sequences of at most n variants with pairwise distinct identifiers (an
\* enum cannot declare an identifier twice).
RECURSIVE ChoiceVariantSeqs(_)
ChoiceVariantSeqs(n) ==
    IF n = 0 THEN {<<>>}
    ELSE LET shorter == ChoiceVariantSeqs(n - 1)
         IN  shorter \cup
             { Append(vs, cv) : vs \in {x \in shorter : Len(x) = n - 1},
                                cv \in ChoiceVariants }

DistinctIdents(vs) ==
    \A i, j \in DOMAIN vs : i # j => vs[i].ident # vs[j].ident

ChoiceDecls ==
    { ChoiceArgs(<<"E">>, option_type, vs) :
        option_type \in {NoAttr, Attr("String"), Attr("Integer"), Attr("Number")},
        vs \in {x \in ChoiceVariantSeqs(MaxChoices) : x # <<>> /\ DistinctIdents(x)} }
        \cup {Medal}

ChoiceWireValues ==
    {Val("String", s) : s \in {<<>>, <<"a">>, <<"g", "o", "l", "d">>, <<"s", "i", "l", "v", "e", "r">>}}
        \cup {Val("Integer", i) : i \in -1 .. 4}
        \cup {Val("Number", x) : x \in 1 .. 3}
        \cup {Val("Boolean", TRUE)}
        \cup {AutocompleteVal(kind, <<"a">>) : kind \in {"String", "Integer"}}

ChoiceInputs == {NoneV} \cup {SomeV(w) : w \in ChoiceWireValues}

InitChoice ==
    /\ decl \in ChoiceDecls
    /\ expanded = Nothing
    /\ input = Nothing
    /\ result = Nothing
    /\ pc = "init"

\* #[derive(BasicOption)] expands decl.
derive_basic_option ==
    /\ pc = "init"
    /\ expanded' = BasicOptionExpand(decl)
    /\ pc' = "derived"
    /\ UNCHANGED <<decl, input, result>>

\* A call of the generated from_value.
Choice_from_value ==
    /\ pc # "init"
    /\ expanded.compiles
    /\ \E value \in ChoiceInputs :
          /\ input' = value
          /\ result' = FromValue(Derived(decl), value)
    /\ pc' = "from_value"
    /\ UNCHANGED <<decl, expanded>>

\* A call of the generated create_option.
Choice_create_option ==
    /\ pc # "init"
    /\ expanded.compiles
    /\ \E name \in StringsUpTo(1) :
          /\ input' = name
          /\ result' = CreateOption(Derived(decl), name, <<"d">>)
    /\ pc' = "create_option"
    /\ UNCHANGED <<decl, expanded>>

NextChoice == derive_basic_option \/ Choice_from_value \/ Choice_create_option

SpecChoice == InitChoice /\ [][NextChoice]_vars

\* The variants of decl whose declared value is the payload w.
VariantsWithValue(w) ==
    {i \in DOMAIN decl.variants : ChoiceVariant_value(decl.variants[i]).v = w}

\* C7: from_value of a choice enum returns the variant whose declared value
\* equals the wire value, UnknownChoice with the value as a string when no
\* variant declares it, MissingRequiredCommandOption without a value, and
\* IncorrectCommandOptionType for a value of another kind.
C7_ChoiceFromValue ==
    (pc = "from_value") =>
        /\ input = NoneV => result = Err(MissingRequiredCommandOption)
        /\ (input # NoneV /\ input.v.k # decl.option_type.v) =>
              result = Err(IncorrectCommandOptionType(ValueKind(input.v), decl.option_type.v))
        /\ (input # NoneV /\ input.v.k = decl.option_type.v) =>
              IF VariantsWithValue(input.v.v) # {}
              THEN /\ result.k = "Ok"
                   /\ \E i \in VariantsWithValue(input.v.v) :
                         result.v = TV(decl.ident, decl.variants[i].ident)
              ELSE /\ result.k = "Err"
                   /\ result.v.k = "UnknownChoice"
                   /\ decl.option_type.v = "String" => result.v.v[1] = input.v.v
                   /\ (decl.option_type.v # "String" /\ input.v.v \in 0 .. 9) =>
                         result.v.v[1] = <<DigitSeq[input.v.v + 1]>>

\* Medal: 2 gives Silver.
C7_Witness ==
    /\ pc = "from_value"
    /\ decl = Medal
    /\ input = SomeV(Val("Integer", 2))
    /\ result = Ok(TV(Medal.ident, <<"S", "i", "l", "v", "e", "r">>))

\* C8: for a choice enum with pairwise distinct values, each choice that
\* create_option registers carries the variant's value (the override, else
\* the kebab-cased identifier), and parsing that value returns the variant.
C8_RegisteredChoiceParses ==
    (/\ pc = "create_option"
     /\ \A i, j \in DOMAIN decl.variants :
           i # j => ChoiceVariant_value(decl.variants[i]) # ChoiceVariant_value(decl.variants[j]))
        => /\ Len(result.choices) = Len(decl.variants)
           /\ \A i \in DOMAIN decl.variants :
                 LET cv == decl.variants[i]
                     registered == result.choices[i].value
                 IN  /\ registered = IF cv.value = NoAttr
                                     THEN LitStr(to_kebab_case(cv.ident))
                                     ELSE cv.value.v
                     /\ FromValue(Derived(decl), SomeV(Val(result.kind, registered.v)))
                            = Ok(TV(decl.ident, cv.ident))

\* A string enum whose variant HighScore has no value override registers
\* and parses "high-score".
C8_Witness ==
    /\ pc = "create_option"
    /\ decl.option_type = Attr("String")
    /\ Len(decl.variants) = 2
    /\ decl.variants[1].value = Attr(LitStr(<<"a">>))
    /\ decl.variants[2] = ChoiceVariant(<<"H", "i", "g", "h", "S", "c", "o", "r", "e">>, NoAttr, NoAttr)
    /\ result.choices[2].value = LitStr(<<"h", "i", "g", "h", "-", "s", "c", "o", "r", "e">>)

(***************************************************************************)
(* Named fields (macros/src/field.rs) and documentation comments           *)
(* (macros/src/utils.rs).                                                  *)
(***************************************************************************)
\* field::Field.  attrs holds the forwarded doc attributes, one string per
\* `///` line; `with` names a module providing create_option and from_value.
Field(ident, ty, attrs, name, with) ==
    [ident |-> ident, ty |-> ty, attrs |-> attrs, name |-> name,
     builder |-> NoAttr, autocomplete |-> FALSE, with |-> with]

\* Field::name
Field_name(field) == kebab_name(field.ident, field.name)

\* str::trim
RECURSIVE TrimStart(_)
TrimStart(s) == IF s # <<>> /\ Head(s) = " " THEN TrimStart(Tail(s)) ELSE s

RECURSIVE TrimEnd(_)
TrimEnd(s) ==
    IF s # <<>> /\ s[Len(s)] = " " THEN TrimEnd(SubSeq(s, 1, Len(s) - 1)) ELSE s

Trim(s) == TrimEnd(TrimStart(s))

\* The fold of documentation_string over the doc lines.
RECURSIVE DocFold(_, _)
DocFold(acc, lines) ==
    IF lines = <<>> THEN acc
    ELSE DocFold((IF acc # <<>> THEN Append(acc, " ") ELSE acc) \o Trim(Head(lines)),
                 Tail(lines))

MissingDocumentation == "missing documentation comment (///) to use as description"

\* utils::documentation_string: the description, and the errors it pushes
\* to the accumulator.
documentation_string(attrs) ==
    IF attrs = <<>>
    THEN [description |-> <<>>, errors |-> <<MissingDocumentation>>]
    ELSE [description |-> DocFold(<<>>, attrs), errors |-> <<>>]

\* A module named by #[command(with = path)].  It is the user's code; the
\* one modelled parses an i64 and falls back to 0 when the option is absent.
WithFromValue(path, value) ==
    IF value = NoneV THEN Ok(TV("i64", 0)) ELSE FromValue(Prim("i64"), value)

WithCreateOption(path, name, description) ==
    [CreateOption(Prim("i64"), name, description) EXCEPT !.required = FALSE]

\* #path_base::create_option: the field's type as a BasicOption, or the
\* module named by `with`.
path_base_create_option(field, name, description) ==
    IF field.with = NoAttr THEN CreateOption(field.ty, name, description)
    ELSE WithCreateOption(field.with.v, name, description)

\* CreateCommandOption::set_autocomplete, which the flagged field appends.
set_autocomplete(option, flagged) ==
    IF flagged THEN [option EXCEPT !.autocomplete = TRUE] ELSE option

\* Field::create_option
Field_create_option(field) ==
    builder_methods(
        set_autocomplete(
            path_base_create_option(field, Field_name(field),
                                    documentation_string(field.attrs).description),
            field.autocomplete),
        field.builder)

\* A CommandDataOption: one named entry of the input.
DataOption(name, value) == [name |-> name, value |-> value]

\* Mutation of MatchArm: every entry is taken by the first arm.
MatchArm_FirstArm(fields, name) == IF fields = <<>> THEN 0 ELSE 1

\* The `match option.name.as_str()` of the fold: the first field whose name
\* the entry carries, 0 when no arm matches.
MatchArm(fields, name) ==
    IF \E i \in DOMAIN fields : Field_name(fields[i]) = name
    THEN CHOOSE i \in DOMAIN fields :
            /\ Field_name(fields[i]) = name
            /\ \A j \in DOMAIN fields : Field_name(fields[j]) = name => i <= j
    ELSE 0

\* Mutation of FoldOptions: an entry matching no field is skipped.
RECURSIVE FoldOptions_Ignores(_, _, _)
FoldOptions_Ignores(fields, options, acc) ==
    IF options = <<>> THEN Ok(acc)
    ELSE LET option == Head(options)
             idx == MatchArm(fields, option.name)
         IN  FoldOptions_Ignores(fields, Tail(options),
                IF idx = 0 THEN acc ELSE [acc EXCEPT ![idx] = SomeV(option.value)])

\* The try_fold of Field::from_options: one slot per field, filled from the
\* entries in input order; an entry matching no field ends the fold.
RECURSIVE FoldOptions(_, _, _)
FoldOptions(fields, options, acc) ==
    IF options = <<>> THEN Ok(acc)
    ELSE LET option == Head(options)
             idx == MatchArm(fields, option.name)
         IN  IF idx = 0 THEN Err(UnknownCommandOption(option.name))
             ELSE FoldOptions(fields, Tail(options),
                              [acc EXCEPT ![idx] = SomeV(option.value)])

\* Mutation of path_base_from_value: the `with` path is dropped and the
\* field's own type parses the slot.
path_base_from_value_OwnType(field, target, slot) == FromValue(target, slot)

\* #path_base::from_value
path_base_from_value(field, target, slot) ==
    IF field.with = NoAttr THEN FromValue(target, slot)
    ELSE WithFromValue(field.with.v, slot)

\* The constructor of one field: <ty as BasicOption>::from_value or
\* with::from_value on its slot; for the autocomplete-flagged field of an
\* autocomplete parser, the typed text is parsed as a String option.
FieldConstructor(field, target, slot, autocomplete) ==
    IF field.autocomplete /\ autocomplete
    THEN FromValue(target,
                   IF slot # NoneV /\ slot.v.k = "Autocomplete"
                   THEN SomeV(Val("String", slot.v.v.value))
                   ELSE slot)
    ELSE path_base_from_value(field, target, slot)

\* Mutation of FieldInits: every initialiser is evaluated, and the error
\* kept is that of the last failing field.
FieldInits_LastError(fields, targets, acc, autocomplete, done) ==
    LET failing == { i \in DOMAIN fields :
                       FieldConstructor(fields[i], targets[i], acc[i], autocomplete).k = "Err" }
    IN  IF failing = {}
        THEN Ok([i \in DOMAIN fields |->
                    FieldConstructor(fields[i], targets[i], acc[i], autocomplete).v])
        ELSE FieldConstructor(fields[CHOOSE i \in failing : \A j \in failing : j <= i],
                              targets[CHOOSE i \in failing : \A j \in failing : j <= i],
                              acc[CHOOSE i \in failing : \A j \in failing : j <= i],
                              autocomplete)

\* The field initialisers, evaluated in declaration order; `?` returns the
\* first error.
RECURSIVE FieldInits(_, _, _, _, _)
FieldInits(fields, targets, acc, autocomplete, done) ==
    IF Len(done) = Len(fields) THEN Ok(done)
    ELSE Try(FieldConstructor(fields[Len(done) + 1], targets[Len(done) + 1],
                              acc[Len(done) + 1], autocomplete),
             LAMBDA init : FieldInits(fields, targets, acc, autocomplete,
                                      Append(done, init)))

\* The code Field::from_options generates, followed by the construction
\* Ok(Self { #field_inits }) of its callers.
Field_from_options(self_ident, fields, targets, options, autocomplete) ==
    Try(FoldOptions(fields, options, [i \in DOMAIN fields |-> NoneV]),
        LAMBDA acc :
            Try(FieldInits(fields, targets, acc, autocomplete, <<>>),
                LAMBDA inits : Ok(TV(self_ident, inits))))

\* The declared types of the fields.
DeclaredTypes(fields) == [i \in DOMAIN fields |-> fields[i].ty]

\* #[command(autocomplete)] on a field or a variant.
Flagged(x) == [x EXCEPT !.autocomplete = TRUE]

\* Field::autocomplete_variant_ident
autocomplete_variant_ident(field) == to_pascal_case_str(StripRawPrefix(field.ident))

\* The positions of the fields carrying the flag, in declaration order.
FlaggedIndices(fields) ==
    SelectSeq([i \in DOMAIN fields |-> i], LAMBDA i : fields[i].autocomplete)

\* Mutation of AutocompleteFieldTypes: every field is wrapped, the flagged
\* one included.
AutocompleteFieldTypes_AllPartial(fields, i) ==
    [j \in DOMAIN fields |-> PartialOptionOf(fields[j].ty)]

\* The field types Field::autocomplete_variants writes into the variant of
\* the flagged field at position i.
AutocompleteFieldTypes(fields, i) ==
    [j \in DOMAIN fields |->
        IF i = j THEN Prim("String") ELSE PartialOptionOf(fields[j].ty)]

\* Field::autocomplete_variants: one variant per flagged field, holding
\* every field of the declaration.
Field_autocomplete_variants(fields) ==
    [n \in DOMAIN FlaggedIndices(fields) |->
        [ident |-> autocomplete_variant_ident(fields[FlaggedIndices(fields)[n]]),
         fields |-> [j \in DOMAIN fields |->
                        [ident |-> fields[j].ident,
                         ty |-> AutocompleteFieldTypes(
                                    fields, FlaggedIndices(fields)[n])[j]]]]]

\* The arms of Field::from_autocomplete_options: the first flagged field
\* whose name is the given one, 0 when the fallback arm is taken.
MatchAutocompleteArm(fields, name) ==
    IF \E i \in DOMAIN fields : fields[i].autocomplete /\ Field_name(fields[i]) = name
    THEN CHOOSE i \in DOMAIN fields :
            /\ fields[i].autocomplete /\ Field_name(fields[i]) = name
            /\ \A j \in DOMAIN fields :
                  (fields[j].autocomplete /\ Field_name(fields[j]) = name) => i <= j
    ELSE 0

\* The closure find_map calls on an entry carrying the marker.
AutocompleteArm(fields, acc, name) ==
    IF MatchAutocompleteArm(fields, name) = 0
    THEN Err(UnknownAutocompleteOption(name))
    ELSE Try(FieldInits(fields,
                        AutocompleteFieldTypes(fields, MatchAutocompleteArm(fields, name)),
                        acc, TRUE, <<>>),
             LAMBDA inits :
                Ok(TV(autocomplete_variant_ident(
                          fields[MatchAutocompleteArm(fields, name)]), inits)))

\* Mutation of AutocompleteFindMap: the arms are tried on the first entry,
\* marked or not.
RECURSIVE AutocompleteFindMap_FirstEntry(_, _, _)
AutocompleteFindMap_FirstEntry(fields, acc, options) ==
    IF options = <<>> THEN Err(MissingAutocompleteOption)
    ELSE AutocompleteArm(fields, acc, Head(options).name)

\* Iterator::find_map over the entries, then unwrap_or: the first entry
\* whose value is CommandDataOptionValue::Autocomplete decides.
RECURSIVE AutocompleteFindMap(_, _, _)
AutocompleteFindMap(fields, acc, options) ==
    IF options = <<>> THEN Err(MissingAutocompleteOption)
    ELSE IF Head(options).value.k = "Autocomplete"
         THEN AutocompleteArm(fields, acc, Head(options).name)
         ELSE AutocompleteFindMap(fields, acc, Tail(options))

\* The code Field::from_autocomplete_options generates: the fold of
\* Field::from_options, then the search for the marked entry.
Field_from_autocomplete_options(fields, options) ==
    Try(FoldOptions(fields, options, [i \in DOMAIN fields |-> NoneV]),
        LAMBDA acc : AutocompleteFindMap(fields, acc, options))

(***************************************************************************)
(* Structs and enums deriving SubCommand, SubCommandGroup, Command and     *)
(* Commands (macros/src/{sub_command,sub_command_group,command,commands,   *)
(* variant}.rs).  A declaration carries the set of derives applied to it;  *)
(* a field or variant names another declaration by carrying it as a type.  *)
(***************************************************************************)
\* The darling Args of the four derives.
Args(ident, derives, data, style, fields, variants) ==
    [ident |-> ident, derives |-> derives, data |-> data, style |-> style,
     fields |-> fields, variants |-> variants, builder |-> NoAttr]

StructArgs(ident, derives, style, fields) ==
    Args(ident, derives, "Struct", style, fields, <<>>)

EnumArgs(ident, derives, variants) ==
    Args(ident, derives, "Enum", "Enum", <<>>, variants)

\* A declared struct or enum used as a type.
ItemType(args) == [k |-> "Item", v |-> args]

\* variant::Variant
Variant(ident, style, fields, attrs, name, context_menu) ==
    [ident |-> ident, style |-> style, fields |-> fields, attrs |-> attrs,
     name |-> name, builder |-> NoAttr, autocomplete |-> FALSE,
     context_menu |-> context_menu]

\* The single unnamed field of a newtype struct or variant.
TupleField(ty) == Field(<<"0">>, ty, <<>>, NoAttr, NoAttr)

\* Variant::name_kebab and Variant::name_title
name_kebab(variant) == kebab_name(variant.ident, variant.name)

name_title(variant) == title_name(variant.ident, variant.name)

\* Result::map with a tuple constructor.
MapCtor(ident, r) == IF r.k = "Ok" THEN Ok(TV(ident, <<r.v>>)) ELSE r

\* Mutation of SubCommandStruct_from_value: a unit struct checks that the
\* value is a sub-command, as a struct with named fields does.
RECURSIVE SubCommandStruct_from_value_UnitChecksKind(_, _)
SubCommandStruct_from_value_UnitChecksKind(args, value) ==
    CASE args.style = "Struct" ->
            IF value.k # "SubCommand"
            THEN Err(IncorrectCommandOptionType(ValueKind(value), "SubCommand"))
            ELSE Field_from_options(args.ident, args.fields,
                                    DeclaredTypes(args.fields), value.v, FALSE)
      [] args.style = "Tuple" ->
            MapCtor(args.ident,
                    SubCommandStruct_from_value_UnitChecksKind(args.fields[1].ty.v, value))
      [] args.style = "Unit" ->
            IF value.k # "SubCommand"
            THEN Err(IncorrectCommandOptionType(ValueKind(value), "SubCommand"))
            ELSE Ok(TV(args.ident, <<>>))

\* The from_value that sub_command::Args::from_value generates; the impl
\* is of SubCommandGroup, with an empty impl of SubCommand beside it.
RECURSIVE SubCommandStruct_from_value(_, _)
SubCommandStruct_from_value(args, value) ==
    CASE args.style = "Struct" ->
            IF value.k # "SubCommand"
            THEN Err(IncorrectCommandOptionType(ValueKind(value), "SubCommand"))
            ELSE Field_from_options(args.ident, args.fields,
                                    DeclaredTypes(args.fields), value.v, FALSE)
      [] args.style = "Tuple" ->
            MapCtor(args.ident, SubCommandStruct_from_value(args.fields[1].ty.v, value))
      [] args.style = "Unit" -> Ok(TV(args.ident, <<>>))

\* <ty as SubCommandGroup>::from_value, defined below.
RECURSIVE SubCommandGroup_from_value(_, _)

\* The arm Variant::from_subcommand_value generates; `value` is the
\* enclosing from_value's argument, `option` the single entry it holds.
Variant_from_subcommand_value(variant, value, option) ==
    CASE variant.style = "Struct" ->
            IF option.value.k # "SubCommand"
            THEN Err(IncorrectCommandOptionType(ValueKind(value), "SubCommand"))
            ELSE Field_from_options(variant.ident, variant.fields,
                                    DeclaredTypes(variant.fields), option.value.v, FALSE)
      [] variant.style = "Tuple" ->
            MapCtor(variant.ident,
                    SubCommandGroup_from_value(variant.fields[1].ty.v, option.value))
      [] variant.style = "Unit" -> Ok(TV(variant.ident, <<>>))

\* Mutation of MatchVariant: the first arm is taken whatever the name.
MatchVariant_FirstVariant(variants, name) == IF variants = <<>> THEN 0 ELSE 1

\* `match name { #(#arms)* }`: the first variant whose kebab name is the
\* given one, 0 when the fallback arm is taken.
MatchVariant(variants, name) ==
    IF \E i \in DOMAIN variants : name_kebab(variants[i]) = name
    THEN CHOOSE i \in DOMAIN variants :
            /\ name_kebab(variants[i]) = name
            /\ \A j \in DOMAIN variants : name_kebab(variants[j]) = name => i <= j
    ELSE 0

\* The from_value that sub_command_group::Args::from_value generates.
SubCommandGroupEnum_from_value(args, value) ==
    IF value.k # "SubCommandGroup"
    THEN Err(IncorrectCommandOptionType(ValueKind(value), "SubCommandGroup"))
    ELSE IF Len(value.v) # 1
         THEN Err(IncorrectCommandOptionCount(Len(value.v), 1))
         ELSE LET option == value.v[1]
                  idx == MatchVariant(args.variants, option.name)
              IN  IF idx = 0 THEN Err(UnknownCommandOption(option.name))
                  ELSE Variant_from_subcommand_value(args.variants[idx], value, option)

\* <ty as SubCommandGroup>::from_value: the impl the derive of SubCommand
\* emits for a struct, or the one the derive of SubCommandGroup emits for an
\* enum.
SubCommandGroup_from_value(args, value) ==
    IF args.data = "Struct" THEN SubCommandStruct_from_value(args, value)
    ELSE SubCommandGroupEnum_from_value(args, value)

\* The arm Variant::from_subcommand_group_value generates.
Variant_from_subcommand_group_value(variant, option) ==
    CASE variant.style = "Struct" ->
            IF option.value.k # "SubCommand"
            THEN Err(IncorrectCommandOptionType(ValueKind(option.value), "SubCommand"))
            ELSE Field_from_options(variant.ident, variant.fields,
                                    DeclaredTypes(variant.fields), option.value.v, FALSE)
      [] variant.style = "Tuple" ->
            MapCtor(variant.ident,
                    SubCommandGroup_from_value(variant.fields[1].ty.v, option.value))
      [] variant.style = "Unit" -> Ok(TV(variant.ident, <<>>))

\* The from_options that command::Args::from_options generates.  The body
\* generated for a newtype struct calls Command::from_command, which the
\* trait does not have, so that no program reaches it.
Command_from_options(args, options) ==
    IF args.data = "Struct"
    THEN CASE args.style = "Struct" ->
                Field_from_options(args.ident, args.fields,
                                   DeclaredTypes(args.fields), options, FALSE)
           [] args.style = "Unit" -> Ok(TV(args.ident, <<>>))
    ELSE IF Len(options) # 1
         THEN Err(IncorrectCommandOptionCount(Len(options), 1))
         ELSE LET option == options[1]
                  idx == MatchVariant(args.variants, option.name)
              IN  IF idx = 0 THEN Err(UnknownCommandOption(option.name))
                  ELSE Variant_from_subcommand_group_value(args.variants[idx], option)

\* The arm body Variant::from_command_options generates.
Variant_from_command_options(variant, options) ==
    CASE variant.style = "Struct" ->
            Field_from_options(variant.ident, variant.fields,
                               DeclaredTypes(variant.fields), options, FALSE)
      [] variant.style = "Tuple" ->
            MapCtor(variant.ident, Command_from_options(variant.fields[1].ty.v, options))
      [] variant.style = "Unit" -> Ok(TV(variant.ident, <<>>))

\* A CommandData: the invoked command's name and its entries.
CommandData(name, options) == [name |-> name, options |-> options]

\* serenity's CommandData::autocomplete: whether a focused entry is found,
\* descending into the first sub-command or group met.
RECURSIVE find_option(_)
find_option(opts) ==
    IF opts = <<>> THEN FALSE
    ELSE CASE Head(opts).value.k \in {"SubCommand", "SubCommandGroup"} ->
                find_option(Head(opts).value.v)
           [] Head(opts).value.k = "Autocomplete" -> TRUE
           [] OTHER -> find_option(Tail(opts))

\* Mutation of Commands_from_command_data: a name matching no variant is
\* handed to the first variant.
Commands_from_command_data_FirstArm(args, data) ==
    IF find_option(data.options) THEN Err(UnexpectedAutocompleteOption)
    ELSE LET idx == MatchVariant(args.variants, data.name)
         IN  IF idx = 0 /\ args.variants = <<>> THEN Err(UnknownCommand(data.name))
             ELSE Variant_from_command_options(
                      args.variants[IF idx = 0 THEN 1 ELSE idx], data.options)

\* The from_command_data that commands::Args::from_command_data generates.
Commands_from_command_data(args, data) ==
    IF find_option(data.options) THEN Err(UnexpectedAutocompleteOption)
    ELSE LET idx == MatchVariant(args.variants, data.name)
         IN  IF idx = 0 THEN Err(UnknownCommand(data.name))
             ELSE Variant_from_command_options(args.variants[idx], data.options)

\* The options Field::create_option builds, field by field.
FieldsCreateOptions(fields) == [i \in DOMAIN fields |-> Field_create_option(fields[i])]

\* The create_option that sub_command::Args::create_option generates.
RECURSIVE SubCommandStruct_create_option(_, _, _)
SubCommandStruct_create_option(args, name, description) ==
    builder_methods(
        CASE args.style = "Struct" ->
                [NewOption("SubCommand", name, description)
                    EXCEPT !.options = FieldsCreateOptions(args.fields)]
          [] args.style = "Tuple" ->
                SubCommandStruct_create_option(args.fields[1].ty.v, name, description)
          [] args.style = "Unit" -> NewOption("SubCommand", name, description),
        args.builder)

\* <ty as SubCommandGroup>::create_option, defined below.
RECURSIVE SubCommandGroup_create_option(_, _, _)

\* Variant::create_sub_command
Variant_create_sub_command(variant) ==
    LET name == name_kebab(variant)
        description == documentation_string(variant.attrs).description
    IN  builder_methods(
          CASE variant.style = "Struct" ->
                  [NewOption("SubCommand", name, description)
                      EXCEPT !.options = FieldsCreateOptions(variant.fields)]
            [] variant.style = "Tuple" ->
                  SubCommandGroup_create_option(variant.fields[1].ty.v, name, description)
            [] variant.style = "Unit" -> NewOption("SubCommand", name, description),
          variant.builder)

\* The create_option that sub_command_group::Args::create_option generates.
SubCommandGroupEnum_create_option(args, name, description) ==
    builder_methods(
        [NewOption("SubCommandGroup", name, description)
            EXCEPT !.options = [i \in DOMAIN args.variants |->
                                    Variant_create_sub_command(args.variants[i])]],
        args.builder)

\* <ty as SubCommandGroup>::create_option
SubCommandGroup_create_option(args, name, description) ==
    IF args.data = "Struct" THEN SubCommandStruct_create_option(args, name, description)
    ELSE SubCommandGroupEnum_create_option(args, name, description)

\* Variant::create_sub_command_group
Variant_create_sub_command_group(variant) ==
    LET name == name_kebab(variant)
        description == documentation_string(variant.attrs).description
    IN  builder_methods(
          CASE variant.style = "Struct" ->
                  [NewOption("SubCommand", name, description)
                      EXCEPT !.options = FieldsCreateOptions(variant.fields)]
            [] variant.style = "Tuple" ->
                  SubCommandGroup_create_option(variant.fields[1].ty.v, name, description)
            [] variant.style = "Unit" -> NewOption("SubCommand", name, description),
          variant.builder)

\* CreateCommand::description
WithDescription(command, description) ==
    [command EXCEPT !.description = SomeV(description)]

\* The create_command that command::Args::create_command generates.
RECURSIVE Command_create_command(_, _, _)
Command_create_command(args, name, description) ==
    builder_methods(
        IF args.data = "Struct"
        THEN CASE args.style = "Struct" ->
                    [WithDescription(NewCommand(name), description)
                        EXCEPT !.options = FieldsCreateOptions(args.fields)]
               [] args.style = "Tuple" ->
                    Command_create_command(args.fields[1].ty.v, name, description)
               [] args.style = "Unit" -> WithDescription(NewCommand(name), description)
        ELSE [WithDescription(NewCommand(name), description)
                EXCEPT !.options = [i \in DOMAIN args.variants |->
                                      Variant_create_sub_command_group(args.variants[i])]],
        args.builder)

\* Mutation of Variant_create_command: a context-menu variant is named
\* like every other variant.
Variant_create_command_Kebab(variant) ==
    LET description == documentation_string(variant.attrs).description
    IN  builder_methods(
          CASE variant.style = "Struct" ->
                  [WithDescription(NewCommand(name_kebab(variant)), description)
                      EXCEPT !.options = FieldsCreateOptions(variant.fields)]
            [] variant.style = "Tuple" ->
                  Command_create_command(variant.fields[1].ty.v,
                                         name_kebab(variant), description)
            [] variant.style = "Unit" ->
                  IF variant.context_menu = NoAttr
                  THEN WithDescription(NewCommand(name_kebab(variant)), description)
                  ELSE [NewCommand(name_kebab(variant))
                          EXCEPT !.kind = variant.context_menu.v],
          variant.builder)

\* Variant::create_command
Variant_create_command(variant) ==
    LET description == documentation_string(variant.attrs).description
    IN  builder_methods(
          CASE variant.style = "Struct" ->
                  [WithDescription(NewCommand(name_kebab(variant)), description)
                      EXCEPT !.options = FieldsCreateOptions(variant.fields)]
            [] variant.style = "Tuple" ->
                  Command_create_command(variant.fields[1].ty.v,
                                         name_kebab(variant), description)
            [] variant.style = "Unit" ->
                  IF variant.context_menu = NoAttr
                  THEN WithDescription(NewCommand(name_kebab(variant)), description)
                  ELSE [NewCommand(name_title(variant))
                          EXCEPT !.kind = variant.context_menu.v],
          variant.builder)

\* The create_commands that commands::Args::create_commands generates.
Commands_create_commands(args) ==
    [i \in DOMAIN args.variants |-> Variant_create_command(args.variants[i])]

(***************************************************************************)
(* The autocomplete counterparts: the ...Autocomplete type each derive     *)
(* emits beside the trait implementation, and its parser.                  *)
(***************************************************************************)
\* IdentExt::autocomplete
autocomplete_ident(ident) ==
    ident \o <<"A", "u", "t", "o", "c", "o", "m", "p", "l", "e", "t", "e">>

\* The type Autocomplete<ty> names: the alias of lib.rs applied to ty.
AutocompleteOf(ty) == [k |-> "Autocomplete", v |-> ty]

\* The variants carrying the flag that the emitted enum keeps: the newtype
\* ones (Variant::from_autocomplete_* return None for every other).
AutocompleteVariantIndices(variants) ==
    SelectSeq([i \in DOMAIN variants |-> i],
              LAMBDA i : variants[i].autocomplete /\ variants[i].style = "Tuple")

\* The variants of the emitted enum: #ident(Autocomplete<#ty>).
AutocompleteVariants(variants) ==
    [n \in DOMAIN AutocompleteVariantIndices(variants) |->
        [ident |-> variants[AutocompleteVariantIndices(variants)[n]].ident,
         fields |-> << [ident |-> <<"0">>,
                        ty |-> AutocompleteOf(
                                  variants[AutocompleteVariantIndices(variants)[n]]
                                      .fields[1].ty)] >>]]

\* Mutation of AutocompleteEnum: the enum is emitted even without variants.
AutocompleteEnum_Always(ident, variants) ==
    SomeV([ident |-> autocomplete_ident(ident), data |-> "Enum", variants |-> variants])

\* pub enum #autocomplete_ident { #variants }
AutocompleteEnum(ident, variants) ==
    IF variants = <<>> THEN NoneV
    ELSE SomeV([ident |-> autocomplete_ident(ident), data |-> "Enum",
                variants |-> variants])

\* The type the `autocomplete` of command::Args and of sub_command::Args
\* emits for a struct; None when it emits nothing.
StructAutocomplete(args) ==
    CASE args.style = "Struct" ->
            AutocompleteEnum(args.ident, Field_autocomplete_variants(args.fields))
      [] args.style = "Tuple" ->
            IF ~args.fields[1].autocomplete THEN NoneV
            ELSE SomeV([ident |-> autocomplete_ident(args.ident), data |-> "Struct",
                        variants |-> << [ident |-> autocomplete_ident(args.ident),
                                         fields |-> << [ident |-> <<"0">>,
                                                        ty |-> AutocompleteOf(
                                                                  args.fields[1].ty)] >>] >>])
      [] args.style = "Unit" -> NoneV

\* Args::autocomplete of the four derives.
DeriveAutocomplete(derive, args) ==
    IF args.data = "Struct"
    THEN IF derive \in {"Command", "SubCommand"} THEN StructAutocomplete(args) ELSE NoneV
    ELSE IF derive \in {"Commands", "Command", "SubCommandGroup"}
         THEN AutocompleteEnum(args.ident, AutocompleteVariants(args.variants))
         ELSE NoneV

\* The arms of the autocomplete parsers of the enums: the first flagged
\* newtype variant whose kebab name is the given one, 0 for the fallback.
MatchAutocompleteVariant(variants, name) ==
    IF \E i \in DOMAIN variants :
          /\ variants[i].autocomplete /\ variants[i].style = "Tuple"
          /\ name_kebab(variants[i]) = name
    THEN CHOOSE i \in DOMAIN variants :
            /\ variants[i].autocomplete /\ variants[i].style = "Tuple"
            /\ name_kebab(variants[i]) = name
            /\ \A j \in DOMAIN variants :
                  (/\ variants[j].autocomplete /\ variants[j].style = "Tuple"
                   /\ name_kebab(variants[j]) = name) => i <= j
    ELSE 0

\* <Autocomplete<ty> as AutocompleteCommand>::from_options and
\* <Autocomplete<ty> as AutocompleteSubCommandOrGroup>::from_value, defined
\* below.
RECURSIVE AutocompleteCommand_from_options(_, _)
RECURSIVE AutocompleteSubCommandOrGroup_from_value(_, _)

\* The from_value sub_command::Args::autocomplete generates for a struct
\* with named fields.
SubCommandStruct_autocomplete_from_value(args, value) ==
    IF value.k # "SubCommand"
    THEN Err(IncorrectCommandOptionType(ValueKind(value), "SubCommand"))
    ELSE Field_from_autocomplete_options(args.fields, value.v)

\* The from_value sub_command_group::Args::autocomplete generates.  Its
\* arms are those of Variant::from_autocomplete_command_options: they hand
\* the group's own entries to AutocompleteCommand::from_options.
SubCommandGroupEnum_autocomplete_from_value(args, value) ==
    IF value.k # "SubCommandGroup"
    THEN Err(IncorrectCommandOptionType(ValueKind(value), "SubCommandGroup"))
    ELSE IF Len(value.v) # 1
         THEN Err(IncorrectCommandOptionCount(Len(value.v), 1))
         ELSE IF MatchAutocompleteVariant(args.variants, value.v[1].name) = 0
              THEN Err(UnknownCommandOption(value.v[1].name))
              ELSE MapCtor(
                     args.variants[MatchAutocompleteVariant(
                                       args.variants, value.v[1].name)].ident,
                     AutocompleteCommand_from_options(
                         args.variants[MatchAutocompleteVariant(
                                           args.variants, value.v[1].name)].fields[1].ty.v,
                         value.v))

AutocompleteSubCommandOrGroup_from_value(args, value) ==
    IF args.data = "Struct" THEN SubCommandStruct_autocomplete_from_value(args, value)
    ELSE SubCommandGroupEnum_autocomplete_from_value(args, value)

\* The from_options command::Args::autocomplete generates: for a struct
\* with named fields the code of Field::from_autocomplete_options, for an
\* enum the arms of Variant::from_autocomplete_subcommand_or_group_value.
AutocompleteCommand_from_options(args, options) ==
    IF args.data = "Struct"
    THEN Field_from_autocomplete_options(args.fields, options)
    ELSE IF Len(options) # 1
         THEN Err(IncorrectCommandOptionCount(Len(options), 1))
         ELSE IF MatchAutocompleteVariant(args.variants, options[1].name) = 0
              THEN Err(UnknownCommandOption(options[1].name))
              ELSE MapCtor(
                     args.variants[MatchAutocompleteVariant(
                                       args.variants, options[1].name)].ident,
                     AutocompleteSubCommandOrGroup_from_value(
                         args.variants[MatchAutocompleteVariant(
                                           args.variants, options[1].name)].fields[1].ty.v,
                         options[1].value))

\* Mutation of AutocompleteCommands_from_command_data: the command name is
\* dispatched on before the marker is looked for.
AutocompleteCommands_from_command_data_DispatchFirst(args, data) ==
    IF MatchAutocompleteVariant(args.variants, data.name) = 0
    THEN Err(UnknownCommand(data.name))
    ELSE IF ~find_option(data.options) THEN Err(MissingAutocompleteOption)
    ELSE MapCtor(
            args.variants[MatchAutocompleteVariant(args.variants, data.name)].ident,
            AutocompleteCommand_from_options(
                args.variants[MatchAutocompleteVariant(
                                  args.variants, data.name)].fields[1].ty.v,
                data.options))

\* The from_command_data commands::Args::autocomplete generates.
AutocompleteCommands_from_command_data(args, data) ==
    IF ~find_option(data.options) THEN Err(MissingAutocompleteOption)
    ELSE IF MatchAutocompleteVariant(args.variants, data.name) = 0
         THEN Err(UnknownCommand(data.name))
         ELSE MapCtor(
                args.variants[MatchAutocompleteVariant(args.variants, data.name)].ident,
                AutocompleteCommand_from_options(
                    args.variants[MatchAutocompleteVariant(
                                      args.variants, data.name)].fields[1].ty.v,
                    data.options))

(***************************************************************************)
(* What a derive produces: the errors it hands to the compiler, and        *)
(* whether the code it emits type-checks in the deriving crate.            *)
(***************************************************************************)
\* The types with an impl of BasicOption.
RECURSIVE ImplementsBasicOption(_)
ImplementsBasicOption(ty) ==
    CASE ty.k = "Prim" -> TRUE
      [] ty.k \in {"Option", "PartialOption"} -> ImplementsBasicOption(ty.v)
      [] ty.k = "Derived" -> BasicOptionExpand(ty.v).emitted
      [] OTHER -> FALSE

\* The calls Field::create_option and Field::from_options emit resolve: the
\* field's type is a BasicOption, or the `with` module produces the type.
FieldTypeChecks(field) ==
    IF field.with = NoAttr THEN ImplementsBasicOption(field.ty)
    ELSE field.ty = Prim("i64")

FieldsTypeCheck(fields) == \A i \in DOMAIN fields : FieldTypeChecks(fields[i])

\* Mutation of FieldsErrors: the walk over the fields returns at the first
\* error.
FieldsErrors_ReturnsEarly(fields) ==
    IF \E i \in DOMAIN fields : documentation_string(fields[i].attrs).errors # <<>>
    THEN <<MissingDocumentation>>
    ELSE <<>>

\* The errors Field::create_option pushes, field by field.
FieldsErrors(fields) ==
    ConcatAll([i \in DOMAIN fields |-> documentation_string(fields[i].attrs).errors])

\* The autocomplete parser of a struct with named fields type-checks: the
\* initialiser of a field the flag is not on is #path_base::from_value, and
\* every variant declares that field as PartialOption<ty>, which a `with`
\* module does not produce.
AutocompleteFieldsTypeCheck(fields) ==
    \/ FlaggedIndices(fields) = <<>>
    \/ \A i \in DOMAIN fields : fields[i].with # NoAttr => fields[i].autocomplete

\* ty: SupportsAutocomplete with Autocomplete<ty> implementing the trait
\* that one of the given derives emits beside ty's own.
SupportsAutocomplete(ty, derives) ==
    /\ ty.k = "Item"
    /\ \E derive \in ty.v.derives \cap derives : DeriveAutocomplete(derive, ty.v) # NoneV

\* The arms of the flagged newtype variants resolve.
VariantsAutocompleteTypeCheck(variants, derives) ==
    \A i \in DOMAIN variants :
        (variants[i].autocomplete /\ variants[i].style = "Tuple")
            => SupportsAutocomplete(variants[i].fields[1].ty, derives)

UnsupportedShape == "Unsupported shape"

\* impl ToTokens for sub_command::Args.  The newtype body names
\* create_option and from_value through the SubCommand trait, which declares
\* neither (they are SubCommandGroup's), so the path does not resolve.
SubCommandExpand(args) ==
    IF args.data # "Struct" THEN Expansion(<<UnsupportedShape>>, FALSE)
    ELSE CASE args.style = "Struct" ->
                Expansion(FieldsErrors(args.fields),
                          /\ FieldsTypeCheck(args.fields)
                          /\ AutocompleteFieldsTypeCheck(args.fields))
           [] args.style = "Tuple" -> Expansion(<<>>, FALSE)
           [] args.style = "Unit" -> Expansion(<<>>, TRUE)

\* Mutation of ImplementsSubCommand: the bound is met by every type with an
\* impl of SubCommandGroup.
ImplementsSubCommand_AnyGroup(ty) ==
    /\ ty.k = "Item"
    /\ ty.v.derives \cap {"SubCommand", "SubCommandGroup"} # {}

\* T: SubCommand, which only the derive of SubCommand provides.
ImplementsSubCommand(ty) ==
    /\ ty.k = "Item"
    /\ "SubCommand" \in ty.v.derives
    /\ SubCommandExpand(ty.v).emitted

\* The errors of a variant's schema: its documentation, then its fields'.
VariantErrors(variant) ==
    documentation_string(variant.attrs).errors
        \o (IF variant.style = "Struct" THEN FieldsErrors(variant.fields) ELSE <<>>)

\* Mutation of VariantAutocompleteErrors: a flag on any shape is accepted.
VariantAutocompleteErrors_Accepts(variant) == <<>>

\* The errors Variant::from_autocomplete_* push.
VariantAutocompleteErrors(variant) ==
    IF ~variant.autocomplete THEN <<>>
    ELSE CASE variant.style = "Struct" ->
                <<"#[command(autocomplete)] is not supported on struct variants">>
           [] variant.style = "Unit" ->
                <<"#[command(autocomplete)] is not supported on unit variants">>
           [] OTHER -> <<>>

\* impl ToTokens for sub_command_group::Args.  A newtype variant emits
\* assert_subcommand::<ty>(), which requires ty: SubCommand.
SubCommandGroupExpand(args) ==
    IF args.data # "Enum" THEN Expansion(<<UnsupportedShape>>, FALSE)
    ELSE Expansion(
            ConcatAll([i \in DOMAIN args.variants |-> VariantErrors(args.variants[i])])
              \o ConcatAll([i \in DOMAIN args.variants |->
                                VariantAutocompleteErrors(args.variants[i])]),
            /\ \A i \in DOMAIN args.variants :
                  LET variant == args.variants[i]
                  IN  CASE variant.style = "Struct" -> FieldsTypeCheck(variant.fields)
                        [] variant.style = "Tuple" ->
                              ImplementsSubCommand(variant.fields[1].ty)
                        [] variant.style = "Unit" -> TRUE
            /\ VariantsAutocompleteTypeCheck(args.variants, {"Command"}))

\* T: SubCommandGroup, by the derive of SubCommand or of SubCommandGroup.
ImplementsSubCommandGroup(ty) ==
    /\ ty.k = "Item"
    /\ \/ "SubCommand" \in ty.v.derives /\ SubCommandExpand(ty.v).emitted
       \/ "SubCommandGroup" \in ty.v.derives /\ SubCommandGroupExpand(ty.v).emitted

\* The methods trait Command declares.
CommandTraitMethods == { "create_command", "from_options" }

\* The methods of Command that the bodies generated for a newtype struct
\* call on the inner type.
NewtypeCommandCallees == { "create_command", "from_command" }

\* impl ToTokens for command::Args.  The newtype struct body calls
\* Command::from_command, which the trait does not declare.
CommandExpand(args) ==
    IF args.data = "Struct"
    THEN CASE args.style = "Struct" ->
                Expansion(FieldsErrors(args.fields),
                          /\ FieldsTypeCheck(args.fields)
                          /\ AutocompleteFieldsTypeCheck(args.fields))
           [] args.style = "Tuple" -> Expansion(<<>>, NewtypeCommandCallees \subseteq CommandTraitMethods)
           [] args.style = "Unit" -> Expansion(<<>>, TRUE)
    ELSE Expansion(
            ConcatAll([i \in DOMAIN args.variants |-> VariantErrors(args.variants[i])])
              \o ConcatAll([i \in DOMAIN args.variants |->
                                VariantAutocompleteErrors(args.variants[i])]),
            /\ \A i \in DOMAIN args.variants :
                  LET variant == args.variants[i]
                  IN  CASE variant.style = "Struct" -> FieldsTypeCheck(variant.fields)
                        [] variant.style = "Tuple" ->
                              ImplementsSubCommandGroup(variant.fields[1].ty)
                        [] variant.style = "Unit" -> TRUE
            /\ VariantsAutocompleteTypeCheck(args.variants, {"SubCommand", "SubCommandGroup"}))

\* T: Command
ImplementsCommand(ty) ==
    /\ ty.k = "Item"
    /\ "Command" \in ty.v.derives
    /\ CommandExpand(ty.v).emitted

\* ContextMenuType::command_type.  The tokens emitted for Message spell the
\* path `::serenity:all::CommandType::Message`, which is not an expression.
command_type_resolves(ctx) == ctx # "Message"

\* impl ToTokens for commands::Args
CommandsExpand(args) ==
    IF args.data # "Enum" THEN Expansion(<<UnsupportedShape>>, FALSE)
    ELSE Expansion(
            ConcatAll([i \in DOMAIN args.variants |->
                        IF /\ args.variants[i].style = "Unit"
                           /\ args.variants[i].context_menu # NoAttr
                        THEN <<>> ELSE VariantErrors(args.variants[i])])
              \o ConcatAll([i \in DOMAIN args.variants |->
                                VariantAutocompleteErrors(args.variants[i])]),
            /\ \A i \in DOMAIN args.variants :
                  LET variant == args.variants[i]
                  IN  CASE variant.style = "Struct" -> FieldsTypeCheck(variant.fields)
                        [] variant.style = "Tuple" -> ImplementsCommand(variant.fields[1].ty)
                        [] variant.style = "Unit" ->
                              \/ variant.context_menu = NoAttr
                              \/ command_type_resolves(variant.context_menu.v)
            /\ VariantsAutocompleteTypeCheck(args.variants, {"Command"}))

\* The expansion of one derive applied to a declaration.
DeriveExpand(derive, args) ==
    CASE derive = "SubCommand" -> SubCommandExpand(args)
      [] derive = "SubCommandGroup" -> SubCommandGroupExpand(args)
      [] derive = "Command" -> CommandExpand(args)
      [] derive = "Commands" -> CommandsExpand(args)

\* The order in which the errors of a declaration's derives are listed.
DeriveOrder == <<"Commands", "Command", "SubCommandGroup", "SubCommand">>

\* The errors of every derive applied to a declaration.
DeriveErrors(args) ==
    ConcatAll([i \in DOMAIN DeriveOrder |->
                IF DeriveOrder[i] \in args.derives
                THEN DeriveExpand(DeriveOrder[i], args).errors ELSE <<>>])

\* The crate compiles: every derive applied to the declaration and to the
\* declarations it names expands to code that type-checks.
RECURSIVE TypeCompiles(_)
RECURSIVE ItemCompiles(_)
TypeCompiles(ty) ==
    CASE ty.k = "Prim" -> TRUE
      [] ty.k \in {"Option", "PartialOption"} -> TypeCompiles(ty.v)
      [] ty.k = "Derived" -> BasicOptionExpand(ty.v).compiles
      [] ty.k = "Item" -> ItemCompiles(ty.v)

ItemCompiles(args) ==
    /\ \A derive \in args.derives : DeriveExpand(derive, args).compiles
    /\ Cardinality({derive \in args.derives : DeriveAutocomplete(derive, args) # NoneV}) <= 1
    /\ \A i \in DOMAIN args.fields : TypeCompiles(args.fields[i].ty)
    /\ \A i \in DOMAIN args.variants :
          \A j \in DOMAIN args.variants[i].fields :
              TypeCompiles(args.variants[i].fields[j].ty)

\* What the compiler is handed for a declaration, and its verdict.
ProgramExpand(args) == Expansion(DeriveErrors(args), ItemCompiles(args))

(***************************************************************************)
(* Named-field parsing: a struct with named fields deriving Command and    *)
(* SubCommand, parsed from lists of entries.                               *)
(***************************************************************************)
MaxFields == 2
MaxOptions == 2

FieldIdents == { <<"m", "s", "g">>, <<"u", "s", "e", "r", "_", "i", "d">> }

FieldNames == { NoAttr, Attr(<<"x">>) }

DocLine == <<" ", "d", ".">>

\* Fields parsed by their type's BasicOption impl, and fields handed to a
\* `with` module.
FieldPool ==
    { Field(ident, ty, <<DocLine>>, name, NoAttr) :
        ident \in FieldIdents, name \in FieldNames,
        ty \in {Prim("i64"), Prim("String"), OptionOf(Prim("i64")), Derived(Medal)} }
      \cup { Field(ident, Prim("i64"), <<DocLine>>, name, Attr("or_default")) :
                ident \in FieldIdents, name \in FieldNames }

\* Sequences of at most n fields with pairwise distinct identifiers.
RECURSIVE FieldSeqs(_)
FieldSeqs(n) ==
    IF n = 0 THEN {<<>>}
    ELSE LET shorter == FieldSeqs(n - 1)
         IN  shorter \cup
             { Append(p[1], p[2]) :
                 p \in { q \in {x \in shorter : Len(x) = n - 1} \X FieldPool :
                           \A i \in DOMAIN q[1] : q[1][i].ident # q[2].ident } }

FieldsDecls ==
    { StructArgs(<<"A">>, {"Command", "SubCommand"}, "Struct", fields) :
        fields \in FieldSeqs(MaxFields) }

OptionNames == { <<"m", "s", "g">>, <<"u", "s", "e", "r", "-", "i", "d">>, <<"x">> }

FieldWireValues == { Val("Integer", 1), Val("String", <<"a">>) }

DataOptions == { DataOption(name, value) : name \in OptionNames, value \in FieldWireValues }

\* Lists of at most n entries.
RECURSIVE OptionSeqs(_)
OptionSeqs(n) ==
    IF n = 0 THEN {<<>>}
    ELSE LET shorter == OptionSeqs(n - 1)
         IN  shorter \cup
             { Append(os, o) : os \in {x \in shorter : Len(x) = n - 1},
                               o \in DataOptions }

InitFields ==
    /\ decl \in FieldsDecls
    /\ expanded = Nothing
    /\ input = Nothing
    /\ result = Nothing
    /\ pc = "init"

\* The derives of the struct expand.
derive_struct ==
    /\ pc = "init"
    /\ expanded' = ProgramExpand(decl)
    /\ pc' = "derived"
    /\ UNCHANGED <<decl, input, result>>

\* A call of the generated Command::from_options.  The generated functions
\* are pure, so one call from the derived state covers every call.
Struct_from_options ==
    /\ pc = "derived"
    /\ expanded.compiles
    /\ \E options \in OptionSeqs(MaxOptions) :
          /\ input' = options
          /\ result' = Command_from_options(decl, options)
    /\ pc' = "from_options"
    /\ UNCHANGED <<decl, expanded>>

\* A call of the generated SubCommandGroup::from_value.
Struct_from_value ==
    /\ pc = "derived"
    /\ expanded.compiles
    /\ \E value \in {Val("SubCommand", options) : options \in OptionSeqs(MaxOptions)}
                        \cup {Val("SubCommandGroup", <<>>), Val("String", <<"a">>)} :
          /\ input' = value
          /\ result' = SubCommandGroup_from_value(decl, value)
    /\ pc' = "from_value"
    /\ UNCHANGED <<decl, expanded>>

NextFields == derive_struct \/ Struct_from_options \/ Struct_from_value

SpecFields == InitFields /\ [][NextFields]_vars

\* The entries handed to the field walker by the call just made; <<>> when
\* the call did not reach it.
WalkedOptions ==
    CASE pc = "from_options" -> input
      [] pc = "from_value" /\ input.k = "SubCommand" -> input.v
      [] OTHER -> <<>>

ReachedWalker == pc = "from_options" \/ (pc = "from_value" /\ input.k = "SubCommand")

\* The names of the declared fields.
DeclaredNames == { Field_name(decl.fields[i]) : i \in DOMAIN decl.fields }

\* The entries naming no declared field, and the first of them.
UnknownEntries(options) == { i \in DOMAIN options : options[i].name \notin DeclaredNames }

FirstUnknown(options) ==
    CHOOSE i \in UnknownEntries(options) : \A j \in UnknownEntries(options) : i <= j

\* The types whose from_value accepts an absent option.
RECURSIVE IsOptional(_)
IsOptional(ty) ==
    CASE ty.k = "Option" -> TRUE
      [] ty.k = "PartialOption" -> IsOptional(ty.v)
      [] ty.k = "Derived" -> ty.v.data = "Struct" /\ IsOptional(ty.v.ty)
      [] OTHER -> FALSE

\* The fields parsed by their type's BasicOption impl, not optional, that no
\* entry of the list names.
MissingFields(options) ==
    { i \in DOMAIN decl.fields :
        /\ decl.fields[i].with = NoAttr
        /\ ~IsOptional(decl.fields[i].ty)
        /\ \A e \in DOMAIN options : options[e].name # Field_name(decl.fields[i]) }

\* The slot the fold leaves for field i: the value of the last entry taking
\* the field's arm.
SlotOf(options, i) ==
    LET taken == { e \in DOMAIN options : MatchArm(decl.fields, options[e].name) = i }
    IN  IF taken = {} THEN NoneV
        ELSE SomeV(options[CHOOSE e \in taken : \A f \in taken : f <= e].value)

\* Every field declared before field i parses its slot.
EarlierFieldsParse(options, i) ==
    \A j \in 1 .. (i - 1) :
        FieldConstructor(decl.fields[j], decl.fields[j].ty, SlotOf(options, j), FALSE).k = "Ok"

\* C9 as stated: whenever the list has no entry for a declared field whose
\* type is not optional, the parse returns MissingRequiredCommandOption.
C9_MissingAlwaysReported ==
    (ReachedWalker /\ MissingFields(WalkedOptions) # {})
        => result = Err(MissingRequiredCommandOption)

\* C9, amended: when the list has no entry for a declared non-optional field
\* parsed by its type's BasicOption impl, the parse never returns Ok, and it
\* returns MissingRequiredCommandOption whenever every entry names a
\* declared field and every field declared earlier parses; otherwise the
\* error is the one met first.
C9_MissingRequiredField ==
    ReachedWalker =>
        \A i \in MissingFields(WalkedOptions) :
            /\ result.k = "Err"
            /\ (UnknownEntries(WalkedOptions) = {} /\ EarlierFieldsParse(WalkedOptions, i))
                  => result = Err(MissingRequiredCommandOption)

\* A list with an entry for the first field and none for the second: the
\* first parses and the second is reported missing.
C9_Witness ==
    /\ pc = "from_options"
    /\ Len(decl.fields) = 2
    /\ Len(input) = 1
    /\ MissingFields(input) = {2}
    /\ input[1].name = Field_name(decl.fields[1])
    /\ result = Err(MissingRequiredCommandOption)

\* C10: the walker answers the first entry that names no declared field
\* with UnknownCommandOption carrying that entry's name, whatever the other
\* entries and the fields are.
C10_UnknownNameAborts ==
    (ReachedWalker /\ UnknownEntries(WalkedOptions) # {})
        => result = Err(UnknownCommandOption(
                            WalkedOptions[FirstUnknown(WalkedOptions)].name))

\* An unknown entry after a known one, in a struct whose fields would
\* otherwise all parse.
C10_Witness ==
    /\ pc = "from_value"
    /\ input.k = "SubCommand"
    /\ Len(input.v) = 2
    /\ UnknownEntries(input.v) = {2}
    /\ MissingFields(input.v) = {}
    /\ result = Err(UnknownCommandOption(input.v[2].name))

\* The call just made, repeated on another list of entries.
ParseWalked(options) ==
    IF pc = "from_options" THEN Command_from_options(decl, options)
    ELSE SubCommandGroup_from_value(decl, Val("SubCommand", options))

\* The names of the entries are pairwise distinct.
DistinctEntryNames(options) ==
    \A i, j \in DOMAIN options : i # j => options[i].name # options[j].name

\* Every reordering of a list of entries.
Permuted(options) ==
    { [i \in DOMAIN options |-> options[p[i]]] : p \in Permutations(DOMAIN options) }

\* Two results are the same: both Ok with the same value, or both the same
\* error.
SameResult(a, b) ==
    /\ a.k = b.k
    /\ a.k = "Err" => a.v.k = b.v.k
    /\ a = b

\* C11 as stated: for a list of entries with pairwise distinct names, every
\* permutation of the list parses to the same result as the list.
C11_PermutationSameResult ==
    (ReachedWalker /\ DistinctEntryNames(WalkedOptions))
        => \A q \in Permuted(WalkedOptions) : SameResult(ParseWalked(q), result)

\* C11, amended: for a list of entries with pairwise distinct names of which
\* at most one names no declared field, every permutation parses to the same
\* result; with several such entries every permutation returns
\* UnknownCommandOption, each with the name of its own first such entry.
C11_PermutationByName ==
    (ReachedWalker /\ DistinctEntryNames(WalkedOptions))
        => \A q \in Permuted(WalkedOptions) :
              IF Cardinality(UnknownEntries(WalkedOptions)) <= 1
              THEN SameResult(ParseWalked(q), result)
              ELSE ParseWalked(q) = Err(UnknownCommandOption(q[FirstUnknown(q)].name))

\* Two entries with different values, given in the reverse of the order in
\* which their fields are declared, and parsed into the struct.
C11_Witness ==
    /\ pc = "from_options"
    /\ Len(decl.fields) = 2
    /\ Len(input) = 2
    /\ input[1].name = Field_name(decl.fields[2])
    /\ input[2].name = Field_name(decl.fields[1])
    /\ input[1].name # input[2].name
    /\ input[1].value # input[2].value
    /\ result.k = "Ok"

\* The fields whose initialiser fails on the slot the fold leaves.
FailingFields(options) ==
    { i \in DOMAIN decl.fields :
        FieldConstructor(decl.fields[i], decl.fields[i].ty, SlotOf(options, i), FALSE).k = "Err" }

FirstFailing(options) ==
    CHOOSE i \in FailingFields(options) : \A j \in FailingFields(options) : i <= j

\* C27: the first entry, in input order, naming no declared field ends the
\* parse with UnknownCommandOption, whatever the fields would have made of
\* their slots.  When every entry names a declared field, the result is the
\* error of the first field, in declaration order, whose initialiser fails,
\* wherever its entry stands in the input, and Ok when none fails.
C27_ErrorOrder ==
    ReachedWalker =>
        IF UnknownEntries(WalkedOptions) # {}
        THEN result = Err(UnknownCommandOption(
                              WalkedOptions[FirstUnknown(WalkedOptions)].name))
        ELSE IF FailingFields(WalkedOptions) # {}
        THEN result = FieldConstructor(
                          decl.fields[FirstFailing(WalkedOptions)],
                          decl.fields[FirstFailing(WalkedOptions)].ty,
                          SlotOf(WalkedOptions, FirstFailing(WalkedOptions)), FALSE)
        ELSE result.k = "Ok"

\* Two fields that both fail, for different reasons, their entries given in
\* the reverse of the declaration order: the first field's error.
C27_Witness ==
    /\ pc = "from_options"
    /\ Len(decl.fields) = 2
    /\ decl.fields[1].ty = Prim("i64") /\ decl.fields[1].with = NoAttr
    /\ decl.fields[2].ty = Prim("String")
    /\ Len(input) = 2
    /\ input[1].name = Field_name(decl.fields[2]) /\ input[1].value.k = "Integer"
    /\ input[2].name = Field_name(decl.fields[1]) /\ input[2].value.k = "String"
    /\ result = Err(IncorrectCommandOptionType("String", "Integer"))

(***************************************************************************)
(* Command lists: an enum deriving Commands, its schemas and its dispatch. *)
(***************************************************************************)
MaxVariants == 2

VariantIdents == { <<"P", "i", "n", "g">>, <<"E", "c", "h", "o">>, <<"H", "i", "g", "h", "S", "c", "o", "r", "e">> }

VariantNames == { NoAttr, Attr(<<"p", "i", "n", "g">>) }

MessageField == Field(<<"m", "e", "s", "s", "a", "g", "e">>, Prim("String"), <<DocLine>>, NoAttr, NoAttr)

\* A struct deriving Command, used as the inner type of newtype variants.
InnerCommand == StructArgs(<<"I", "n", "n", "e", "r">>, {"Command"}, "Struct", <<MessageField>>)

\* The shapes of a variant: documented unit, struct and newtype variants,
\* an undocumented unit variant, and the two context-menu variants.
VariantShapes ==
    { [style |-> "Unit", fields |-> <<>>, attrs |-> <<DocLine>>, context_menu |-> NoAttr],
      [style |-> "Unit", fields |-> <<>>, attrs |-> <<>>, context_menu |-> NoAttr],
      [style |-> "Unit", fields |-> <<>>, attrs |-> <<>>, context_menu |-> Attr("User")],
      [style |-> "Unit", fields |-> <<>>, attrs |-> <<>>, context_menu |-> Attr("Message")],
      [style |-> "Struct", fields |-> <<MessageField>>, attrs |-> <<DocLine>>,
       context_menu |-> NoAttr],
      [style |-> "Tuple", fields |-> <<TupleField(ItemType(InnerCommand))>>,
       attrs |-> <<DocLine>>, context_menu |-> NoAttr] }

CommandVariants ==
    { Variant(ident, sh.style, sh.fields, sh.attrs, name, sh.context_menu) :
        ident \in VariantIdents, name \in VariantNames, sh \in VariantShapes }

\* Sequences of at most n variants of a pool with pairwise distinct
\* identifiers.
RECURSIVE VariantSeqs(_, _)
VariantSeqs(pool, n) ==
    IF n = 0 THEN {<<>>}
    ELSE LET shorter == VariantSeqs(pool, n - 1)
         IN  shorter \cup
             { Append(p[1], p[2]) :
                 p \in { q \in {x \in shorter : Len(x) = n - 1} \X pool :
                           \A i \in DOMAIN q[1] : q[1][i].ident # q[2].ident } }

CommandsDecls ==
    { EnumArgs(<<"A", "l", "l", "C", "o", "m", "m", "a", "n", "d", "s">>, {"Commands"}, variants) :
        variants \in VariantSeqs(CommandVariants, MaxVariants) }

CommandNames == { <<"p", "i", "n", "g">>, <<"e", "c", "h", "o">>, <<"h", "i", "g", "h", "-", "s", "c", "o", "r", "e">>, <<"H", "i", "g", "h", " ", "S", "c", "o", "r", "e">>, <<"b", "o", "g", "u", "s">> }

CommandOptionLists ==
    { <<>>,
      <<DataOption(<<"m", "e", "s", "s", "a", "g", "e">>, Val("String", <<"a">>))>>,
      <<DataOption(<<"m", "e", "s", "s", "a", "g", "e">>, AutocompleteVal("String", <<"a">>))>>,
      <<DataOption(<<"b", "o", "g", "u", "s">>, Val("Integer", 1))>> }

CommandDatas ==
    { CommandData(name, options) : name \in CommandNames, options \in CommandOptionLists }

InitCommands ==
    /\ decl \in CommandsDecls
    /\ expanded = Nothing
    /\ input = Nothing
    /\ result = Nothing
    /\ pc = "init"

derive_commands ==
    /\ pc = "init"
    /\ expanded' = ProgramExpand(decl)
    /\ pc' = "derived"
    /\ UNCHANGED <<decl, input, result>>

\* A call of the generated Commands::create_commands.
create_commands ==
    /\ pc = "derived"
    /\ expanded.compiles
    /\ input' = Nothing
    /\ result' = Commands_create_commands(decl)
    /\ pc' = "create_commands"
    /\ UNCHANGED <<decl, expanded>>

\* A call of the generated Commands::from_command_data.
from_command_data ==
    /\ pc = "derived"
    /\ expanded.compiles
    /\ \E data \in CommandDatas :
          /\ input' = data
          /\ result' = Commands_from_command_data(decl, data)
    /\ pc' = "from_command_data"
    /\ UNCHANGED <<decl, expanded>>

NextCommands == derive_commands \/ create_commands \/ from_command_data

SpecCommands == InitCommands /\ [][NextCommands]_vars

\* The variants whose external (kebab or overridden) name is the given one.
VariantsNamed(name) == { i \in DOMAIN decl.variants : name_kebab(decl.variants[i]) = name }

\* No two variants share an external name.
DistinctNames ==
    \A i, j \in DOMAIN decl.variants :
        i # j => name_kebab(decl.variants[i]) # name_kebab(decl.variants[j])

\* The result is what parsing the entries as variant i gives: Ok of that
\* variant, or the error of its payload.
ParsedAs(i) ==
    /\ result.k = "Ok" => result.v.k = decl.variants[i].ident
    /\ result.k = "Err" => /\ result.v.k # "UnknownCommand"
                           /\ decl.variants[i].style # "Unit"

\* C1 as stated: for every enum, data named like a variant is parsed as
\* exactly that variant, and data with any other name returns
\* UnknownCommand carrying the name.
C1_DispatchForEveryData ==
    pc = "from_command_data" =>
        /\ \A i \in VariantsNamed(input.name) : ParsedAs(i)
        /\ VariantsNamed(input.name) = {} => result = Err(UnknownCommand(input.name))

\* C1, amended: data carrying an autocomplete marker returns
\* UnexpectedAutocompleteOption whatever its name.  For data without one,
\* any name that is no variant's returns UnknownCommand carrying it, and in
\* an enum whose variants have pairwise distinct external names, data named
\* like a variant is parsed as exactly that variant.
C1_DispatchByName ==
    pc = "from_command_data" =>
        IF find_option(input.options)
        THEN result = Err(UnexpectedAutocompleteOption)
        ELSE /\ DistinctNames => \A i \in VariantsNamed(input.name) : ParsedAs(i)
             /\ VariantsNamed(input.name) = {}
                  => result = Err(UnknownCommand(input.name))

\* Two variants with distinct names, and data named like the second: the
\* second variant is the result.
C1_Witness ==
    /\ pc = "from_command_data"
    /\ Len(decl.variants) = 2
    /\ DistinctNames
    /\ ~find_option(input.options)
    /\ VariantsNamed(input.name) = {2}
    /\ result.k = "Ok"
    /\ result.v.k = decl.variants[2].ident

\* The name create_command gives a variant's schema.
RegisteredName(variant) ==
    IF variant.style = "Unit" /\ variant.context_menu # NoAttr
    THEN title_name(variant.ident, variant.name)
    ELSE kebab_name(variant.ident, variant.name)

\* C2 as stated: one schema per variant, in declaration order, each named
\* by the variant's kebab-cased identifier or its override.
C2_OneKebabSchemaPerVariant ==
    pc = "create_commands" =>
        /\ Len(result) = Len(decl.variants)
        /\ \A i \in DOMAIN decl.variants :
              result[i].name = kebab_name(decl.variants[i].ident, decl.variants[i].name)

\* C2, amended: one schema per variant, in declaration order, each named
\* by the variant's override or else its kebab-cased identifier, except
\* that a unit variant with context_menu and no override is named by the
\* Title Case of its identifier.
C2_OneSchemaPerVariant ==
    pc = "create_commands" =>
        /\ Len(result) = Len(decl.variants)
        /\ \A i \in DOMAIN decl.variants :
              result[i].name = RegisteredName(decl.variants[i])

\* The example: Ping and Echo { message } give two commands, the first
\* named by the kebab case of Ping and the second by that of Echo,
\* the second with the one option message.
C2_Witness ==
    /\ pc = "create_commands"
    /\ Len(decl.variants) = 2
    /\ decl.variants[1].ident = <<"P", "i", "n", "g">> /\ decl.variants[1].style = "Unit"
    /\ decl.variants[2].ident = <<"E", "c", "h", "o">> /\ decl.variants[2].style = "Struct"
    /\ result[1].name = <<"p", "i", "n", "g">>
    /\ result[2].name = <<"e", "c", "h", "o">>
    /\ Len(result[2].options) = 1
    /\ result[2].options[1].name = <<"m", "e", "s", "s", "a", "g", "e">>

\* The names under which create_commands registers the variants.
RegisteredNames ==
    { Commands_create_commands(decl)[i].name : i \in DOMAIN decl.variants }

\* C24: every variant is matched under the name it is registered under, so
\* data carrying a registered name is never answered with UnknownCommand.
C24_RegisteredNameIsMatched ==
    (pc = "from_command_data" /\ input.name \in RegisteredNames)
        => result.k = "Ok" \/ result.v.k # "UnknownCommand"

\* A context-menu variant without a name override, and data carrying the
\* Title Case name it is registered under.
C24_Witness ==
    /\ pc = "from_command_data"
    /\ \E i \in DOMAIN decl.variants :
          /\ decl.variants[i].context_menu # NoAttr
          /\ decl.variants[i].name = NoAttr
          /\ input.name = Commands_create_commands(decl)[i].name
    /\ ~find_option(input.options)
    /\ result = Err(UnknownCommand(input.name))

(***************************************************************************)
(* Nesting: enums deriving Command and SubCommandGroup, composed with      *)
(* structs deriving SubCommand and with each other.                        *)
(***************************************************************************)
MaxSubCommands == 2
MaxGroups == 2

UnitSub == StructArgs(<<"U", "n", "i", "t", "S", "u", "b">>, {"SubCommand"}, "Unit", <<>>)

FieldSub == StructArgs(<<"F", "i", "e", "l", "d", "S", "u", "b">>, {"SubCommand"}, "Struct", <<MessageField>>)

\* A sub-command group with a single unit sub-command.
InnerGroup ==
    EnumArgs(<<"I", "n", "n", "e", "r", "G", "r", "o", "u", "p">>, {"SubCommandGroup"},
             <<Variant(<<"L", "e", "a", "f">>, "Unit", <<>>, <<DocLine>>, NoAttr, NoAttr)>>)

\* The variants of a sub-command group: unit and struct variants, newtype
\* variants of sub-command structs, and a newtype variant of a group.
GroupVariants ==
    { Variant(ident, sh.style, sh.fields, <<DocLine>>, NoAttr, NoAttr) :
        ident \in { <<"A", "d", "d">>, <<"R", "e", "m", "o", "v", "e">>, <<"L", "i", "s", "t">> },
        sh \in { [style |-> "Unit", fields |-> <<>>],
                 [style |-> "Struct", fields |-> <<MessageField>>],
                 [style |-> "Tuple", fields |-> <<TupleField(ItemType(UnitSub))>>],
                 [style |-> "Tuple", fields |-> <<TupleField(ItemType(FieldSub))>>],
                 [style |-> "Tuple", fields |-> <<TupleField(ItemType(InnerGroup))>>] } }

GroupDecls ==
    { EnumArgs(<<"G", "r", "o", "u", "p">>, {"SubCommandGroup"}, variants) :
        variants \in VariantSeqs(GroupVariants, MaxSubCommands) }

\* The variants of a command: unit and struct variants, and newtype
\* variants of a sub-command struct and of groups.
NestedCommandVariants ==
    { Variant(ident, sh.style, sh.fields, <<DocLine>>, NoAttr, NoAttr) :
        ident \in { <<"A", "d", "m", "i", "n">>, <<"U", "s", "e", "r">> },
        sh \in { [style |-> "Unit", fields |-> <<>>],
                 [style |-> "Struct", fields |-> <<MessageField>>],
                 [style |-> "Tuple", fields |-> <<TupleField(ItemType(FieldSub))>>] }
               \cup { [style |-> "Tuple", fields |-> <<TupleField(ItemType(group))>>] :
                        group \in { EnumArgs(<<"G", "r", "o", "u", "p">>, {"SubCommandGroup"}, variants) :
                                      variants \in VariantSeqs(GroupVariants, 1) } } }

NestedCommandDecls ==
    { EnumArgs(<<"C", "o", "m", "m", "a", "n", "d">>, {"Command"}, variants) :
        variants \in VariantSeqs(NestedCommandVariants, MaxGroups) }

SubCommandValues ==
    { Val("SubCommand", options) :
        options \in { <<>>, <<DataOption(<<"m", "e", "s", "s", "a", "g", "e">>, Val("String", <<"a">>))>> } }

GroupValues ==
    { Val("SubCommandGroup", <<DataOption(name, value)>>) :
        name \in { <<"a", "d", "d">>, <<"r", "e", "m", "o", "v", "e">> }, value \in SubCommandValues }
      \cup { Val("SubCommandGroup", <<>>),
             Val("SubCommandGroup", <<DataOption(<<"a", "d", "d">>, Val("String", <<"a">>))>>),
             Val("SubCommandGroup",
                 <<DataOption(<<"a", "d", "d">>, Val("SubCommand", <<>>)),
                   DataOption(<<"r", "e", "m", "o", "v", "e">>, Val("SubCommand", <<>>))>>),
             Val("SubCommandGroup",
                 <<DataOption(<<"a", "d", "d">>, Val("SubCommandGroup",
                                       <<DataOption(<<"l", "e", "a", "f">>, Val("SubCommand", <<>>))>>))>>) }

\* Newtype structs deriving Command, around a struct and around an enum
\* that derive Command.
NewtypeCommandDecls ==
    { StructArgs(<<"W", "r", "a", "p", "p", "e", "r">>, {"Command"}, "Tuple",
                 <<TupleField(ItemType(inner))>>) :
        inner \in { InnerCommand,
                    EnumArgs(<<"C", "o", "m", "m", "a", "n", "d">>, {"Command"},
                             <<Variant(<<"A", "d", "m", "i", "n">>, "Unit", <<>>,
                                       <<DocLine>>, NoAttr, NoAttr)>>) } }

\* The variants of a command list: unit variants, with and without a
\* context menu, and a newtype variant.
ListedVariants ==
    { Variant(ident, sh.style, sh.fields, sh.attrs, NoAttr, sh.context_menu) :
        ident \in { <<"A", "d", "m", "i", "n">>, <<"U", "s", "e", "r">> },
        sh \in { [style |-> "Unit", fields |-> <<>>, attrs |-> <<DocLine>>,
                  context_menu |-> NoAttr],
                 [style |-> "Unit", fields |-> <<>>, attrs |-> <<>>,
                  context_menu |-> Attr("User")],
                 [style |-> "Tuple", fields |-> <<TupleField(ItemType(InnerCommand))>>,
                  attrs |-> <<DocLine>>, context_menu |-> NoAttr] } }

ListedCommandsDecls ==
    { EnumArgs(<<"A", "l", "l", "C", "o", "m", "m", "a", "n", "d", "s">>, {"Commands"}, variants) :
        variants \in VariantSeqs(ListedVariants, MaxGroups) }

InitNesting ==
    /\ decl \in GroupDecls \cup NestedCommandDecls \cup NewtypeCommandDecls
                  \cup ListedCommandsDecls
    /\ expanded = Nothing
    /\ input = Nothing
    /\ result = Nothing
    /\ pc = "init"

derive_nested ==
    /\ pc = "init"
    /\ expanded' = ProgramExpand(decl)
    /\ pc' = "derived"
    /\ UNCHANGED <<decl, input, result>>

\* A call of the generated SubCommandGroup::create_option of a group.
Group_create_option ==
    /\ pc = "derived"
    /\ expanded.compiles
    /\ "SubCommandGroup" \in decl.derives
    /\ input' = Nothing
    /\ result' = SubCommandGroup_create_option(decl, <<"g">>, <<"d">>)
    /\ pc' = "create_option"
    /\ UNCHANGED <<decl, expanded>>

\* A call of the generated SubCommandGroup::from_value of a group.
Group_from_value ==
    /\ pc = "derived"
    /\ expanded.compiles
    /\ "SubCommandGroup" \in decl.derives
    /\ \E value \in GroupValues \cup SubCommandValues :
          /\ input' = value
          /\ result' = SubCommandGroup_from_value(decl, value)
    /\ pc' = "from_value"
    /\ UNCHANGED <<decl, expanded>>

\* A call of the generated Command::create_command of a command.
Command_create ==
    /\ pc = "derived"
    /\ expanded.compiles
    /\ "Command" \in decl.derives
    /\ input' = Nothing
    /\ result' = Command_create_command(decl, <<"c">>, <<"d">>)
    /\ pc' = "create_command"
    /\ UNCHANGED <<decl, expanded>>

\* A call of the generated Command::from_options of a command.
Command_from ==
    /\ pc = "derived"
    /\ expanded.compiles
    /\ "Command" \in decl.derives
    /\ \E options \in { <<>>,
                        <<DataOption(<<"a", "d", "m", "i", "n">>, Val("SubCommand", <<>>)),
                          DataOption(<<"u", "s", "e", "r">>, Val("SubCommand", <<>>))>> } \cup
                      { <<DataOption(name, value)>> :
                          name \in { <<"a", "d", "m", "i", "n">>, <<"u", "s", "e", "r">> },
                          value \in GroupValues \cup SubCommandValues } :
          /\ input' = options
          /\ result' = Command_from_options(decl, options)
    /\ pc' = "from_options"
    /\ UNCHANGED <<decl, expanded>>

\* A call of the generated Commands::from_command_data of a command list.
Listed_from_command_data ==
    /\ pc = "derived"
    /\ expanded.compiles
    /\ "Commands" \in decl.derives
    /\ \E data \in { CommandData(name, options) :
                        name \in { <<"a", "d", "m", "i", "n">>, <<"u", "s", "e", "r">>,
                                   <<"b", "o", "g", "u", "s">> },
                        options \in CommandOptionLists } :
          /\ input' = data
          /\ result' = Commands_from_command_data(decl, data)
    /\ pc' = "from_command_data"
    /\ UNCHANGED <<decl, expanded>>

NextNesting ==
    \/ derive_nested
    \/ Group_create_option
    \/ Group_from_value
    \/ Command_create
    \/ Command_from
    \/ Listed_from_command_data

SpecNesting == InitNesting /\ [][NextNesting]_vars

\* A type with the SubCommandGroup impl of an enum and no impl of
\* SubCommand.
IsGroupOnly(ty) ==
    /\ ty.k = "Item"
    /\ "SubCommandGroup" \in ty.v.derives
    /\ "SubCommand" \notin ty.v.derives

\* A group with a newtype variant whose inner type is itself a group.
HasGroupInGroup(args) ==
    /\ "SubCommandGroup" \in args.derives
    /\ \E i \in DOMAIN args.variants :
          /\ args.variants[i].style = "Tuple"
          /\ IsGroupOnly(args.variants[i].fields[1].ty)

\* The declaration, or a group it names, nests a group in a group.
NestsGroupInGroup ==
    \/ HasGroupInGroup(decl)
    \/ \E i \in DOMAIN decl.variants :
          /\ decl.variants[i].style = "Tuple"
          /\ HasGroupInGroup(decl.variants[i].fields[1].ty.v)

Max(S) == CHOOSE x \in S : \A y \in S : y <= x

\* The levels of sub-commands and groups in a list of schema options.
RECURSIVE NestingLevels(_)
NestingLevels(options) ==
    LET nested == { i \in DOMAIN options :
                      options[i].kind \in {"SubCommand", "SubCommandGroup"} }
    IN  IF nested = {} THEN 0
        ELSE 1 + Max({ NestingLevels(options[i].options) : i \in nested })

\* The levels below the top-level command in the schema just created; a
\* group's own schema is the first level below the command that holds it.
LevelsBelowCommand ==
    IF pc = "create_command" THEN NestingLevels(result.options)
    ELSE NestingLevels(<<result>>)

\* C5: a group with a newtype variant whose inner type is a group and not a
\* sub-command does not compile, nor does a command naming such a group;
\* and the schema of every composition that compiles has at most two levels
\* below the command: a group, then its sub-commands.
C5_NestingDepth ==
    /\ (pc # "init" /\ NestsGroupInGroup) => ~expanded.compiles
    /\ pc \in {"create_command", "create_option"} => LevelsBelowCommand <= 2

\* A group whose first variant holds a sub-command struct and whose second
\* holds a group: the derive hands the compiler no error of its own and the
\* emitted code is rejected.
C5_Witness ==
    /\ pc = "derived"
    /\ decl.derives = {"SubCommandGroup"}
    /\ Len(decl.variants) = 2
    /\ decl.variants[1].style = "Tuple"
    /\ ImplementsSubCommand(decl.variants[1].fields[1].ty)
    /\ decl.variants[2].style = "Tuple"
    /\ IsGroupOnly(decl.variants[2].fields[1].ty)
    /\ expanded.errors = <<>>
    /\ ~expanded.compiles

\* The first variant carrying an external name, the one whose arm `match`
\* takes.
FirstVariantNamed(name) ==
    CHOOSE i \in VariantsNamed(name) : \A j \in VariantsNamed(name) : i <= j

\* C19: the parse entry of a sub-command group rejects a value that is not
\* of kind SubCommandGroup with IncorrectCommandOptionType expecting
\* SubCommandGroup; that entry and the parse entry of an enum command reject
\* a list of n # 1 nested options with IncorrectCommandOptionCount(n, 1);
\* given exactly one option, a name that is a variant's external name gives
\* what that variant's arm parses, an Ok result being that variant, and any
\* other name gives UnknownCommandOption with that name.
C19_SingleNestedOption ==
    /\ (pc = "from_value" /\ decl.data = "Enum") =>
          IF input.k # "SubCommandGroup"
          THEN result = Err(IncorrectCommandOptionType(ValueKind(input), "SubCommandGroup"))
          ELSE IF Len(input.v) # 1
          THEN result = Err(IncorrectCommandOptionCount(Len(input.v), 1))
          ELSE IF VariantsNamed(input.v[1].name) = {}
          THEN result = Err(UnknownCommandOption(input.v[1].name))
          ELSE /\ result = Variant_from_subcommand_value(
                               decl.variants[FirstVariantNamed(input.v[1].name)],
                               input, input.v[1])
               /\ result.k = "Ok" =>
                     result.v.k = decl.variants[FirstVariantNamed(input.v[1].name)].ident
               /\ decl.variants[FirstVariantNamed(input.v[1].name)].style = "Unit"
                     => result.k = "Ok"
    /\ (pc = "from_options" /\ decl.data = "Enum") =>
          IF Len(input) # 1
          THEN result = Err(IncorrectCommandOptionCount(Len(input), 1))
          ELSE IF VariantsNamed(input[1].name) = {}
          THEN result = Err(UnknownCommandOption(input[1].name))
          ELSE /\ result = Variant_from_subcommand_group_value(
                               decl.variants[FirstVariantNamed(input[1].name)], input[1])
               /\ result.k = "Ok" =>
                     result.v.k = decl.variants[FirstVariantNamed(input[1].name)].ident
               /\ decl.variants[FirstVariantNamed(input[1].name)].style = "Unit"
                     => result.k = "Ok"

\* A group of two variants given one nested option named like its second,
\* a struct-shape variant: that variant is the result.
C19_Witness ==
    /\ pc = "from_value"
    /\ decl.data = "Enum"
    /\ Len(decl.variants) = 2
    /\ input.k = "SubCommandGroup"
    /\ Len(input.v) = 1
    /\ VariantsNamed(input.v[1].name) = {2}
    /\ decl.variants[2].style = "Struct"
    /\ result.k = "Ok"
    /\ result.v.k = decl.variants[2].ident

\* C20 as stated: a parser rejecting an option for its kind reports the
\* kind of the option it inspected and the kind it required.  The entry of
\* a group reports the kind of the value it was given; a named-field
\* variant, of a group or of a command, reports the kind of the nested
\* option it was given.
C20_GotIsInspectedKind ==
    /\ (pc = "from_value" /\ decl.data = "Enum") =>
          IF input.k # "SubCommandGroup"
          THEN result = Err(IncorrectCommandOptionType(ValueKind(input), "SubCommandGroup"))
          ELSE (/\ Len(input.v) = 1
                /\ VariantsNamed(input.v[1].name) # {}
                /\ decl.variants[FirstVariantNamed(input.v[1].name)].style = "Struct"
                /\ input.v[1].value.k # "SubCommand")
                  => result = Err(IncorrectCommandOptionType(
                                     ValueKind(input.v[1].value), "SubCommand"))
    /\ (/\ pc = "from_options" /\ decl.data = "Enum"
        /\ Len(input) = 1
        /\ VariantsNamed(input[1].name) # {}
        /\ decl.variants[FirstVariantNamed(input[1].name)].style = "Struct"
        /\ input[1].value.k # "SubCommand")
          => result = Err(IncorrectCommandOptionType(
                             ValueKind(input[1].value), "SubCommand"))

\* A group whose named-field variant is given a nested option of kind
\* String: the error reports the kind of the group's own value.
C20_Witness ==
    /\ pc = "from_value"
    /\ decl.data = "Enum"
    /\ input.k = "SubCommandGroup"
    /\ Len(input.v) = 1
    /\ input.v[1].value.k = "String"
    /\ VariantsNamed(input.v[1].name) # {}
    /\ decl.variants[FirstVariantNamed(input.v[1].name)].style = "Struct"
    /\ result = Err(IncorrectCommandOptionType("SubCommandGroup", "SubCommand"))

\* A newtype struct deriving Command, and the type it wraps.
IsNewtypeCommand == decl.data = "Struct" /\ decl.style = "Tuple" /\ "Command" \in decl.derives

\* C21: a newtype struct deriving Command has both operations, each the
\* inner type's: create_command(name, description) is the inner type's
\* create_command with the same arguments followed by the builder calls,
\* and from_options(options) is the inner type's from_options(options)
\* wrapped in the newtype.
C21_NewtypeDelegates ==
    (IsNewtypeCommand /\ pc # "init") =>
        /\ expanded.compiles = TypeCompiles(decl.fields[1].ty)
        /\ pc = "create_command" =>
              result = builder_methods(
                          Command_create_command(decl.fields[1].ty.v, <<"c">>, <<"d">>),
                          decl.builder)
        /\ pc = "from_options" =>
              result = MapCtor(decl.ident, Command_from_options(decl.fields[1].ty.v, input))

\* A newtype struct around a struct deriving Command is expanded without
\* a reported error, and the expansion is rejected by the compiler.
C21_Witness ==
    /\ IsNewtypeCommand
    /\ pc = "derived"
    /\ decl.fields[1].ty.v.data = "Struct"
    /\ TypeCompiles(decl.fields[1].ty)
    /\ expanded.errors = <<>>
    /\ ~expanded.compiles

\* The arm the name in hand selects, 0 when a check before the match has
\* already returned or no arm has that name.
SelectedArm ==
    CASE pc = "from_command_data" ->
            IF find_option(input.options) THEN 0
            ELSE MatchVariant(decl.variants, input.name)
      [] pc = "from_options" /\ decl.data = "Enum" ->
            IF Len(input) # 1 THEN 0 ELSE MatchVariant(decl.variants, input[1].name)
      [] pc = "from_value" ->
            IF input.k # "SubCommandGroup" THEN 0
            ELSE IF Len(input.v) # 1 THEN 0
                 ELSE MatchVariant(decl.variants, input.v[1].name)
      [] OTHER -> 0

\* Whether the selected arm wraps a unit struct deriving SubCommand.
WrapsUnitStruct(variant) ==
    /\ variant.style = "Tuple"
    /\ variant.fields[1].ty.v.data = "Struct"
    /\ variant.fields[1].ty.v.style = "Unit"

\* C28: the arm of a unit variant of a command list, of a command and of a
\* sub-command group, once selected by name, returns Ok of the variant
\* whatever the entries or the value carried; and a unit struct deriving
\* SubCommand parses every value handed to it, so that a newtype variant
\* around it returns Ok of the variant holding the struct.
C28_UnitAcceptsAnything ==
    SelectedArm # 0 =>
        LET variant == decl.variants[SelectedArm]
        IN  /\ variant.style = "Unit" => result = Ok(TV(variant.ident, <<>>))
            /\ (pc = "from_value" /\ WrapsUnitStruct(variant)) =>
                  result = Ok(TV(variant.ident, <<TV(variant.fields[1].ty.v.ident, <<>>)>>))

\* A unit struct reached through a group is handed a string and parses.
C28_Witness ==
    /\ pc = "from_value"
    /\ SelectedArm # 0
    /\ WrapsUnitStruct(decl.variants[SelectedArm])
    /\ input.v[1].value = Val("String", <<"a">>)
    /\ result = Ok(TV(decl.variants[SelectedArm].ident, <<TV(<<"U", "n", "i", "t", "S", "u", "b">>, <<>>)>>))

(***************************************************************************)
(* Autocomplete: declarations carrying #[command(autocomplete)] on fields  *)
(* or variants, the ...Autocomplete type emitted beside the trait          *)
(* implementation, and its parser applied to entries.                      *)
(***************************************************************************)
SuffixIdent == <<"s", "u", "f", "f", "i", "x">>

WordIdent == <<"w", "o", "r", "d">>

\* Fields with and without the flag, a field handed to a `with` module, and
\* fields of a type with a partial form and of an optional type.
FlagFieldPool ==
    { Field(ident, ty, <<DocLine>>, NoAttr, NoAttr) :
        ident \in {SuffixIdent, WordIdent}, ty \in {Prim("String"), Prim("i64")} }
      \cup { Flagged(Field(ident, ty, <<DocLine>>, NoAttr, NoAttr)) :
                ident \in {SuffixIdent, WordIdent}, ty \in {Prim("String"), Prim("i64")} }
      \cup { Field(ident, Prim("i64"), <<DocLine>>, NoAttr, Attr("or_default")) :
                ident \in {SuffixIdent, WordIdent} }
      \cup { Field(SuffixIdent, ty, <<DocLine>>, NoAttr, NoAttr) :
                ty \in {Prim("char"), OptionOf(Prim("String"))} }

\* Sequences of at most n of these fields with pairwise distinct
\* identifiers.
RECURSIVE FlagFieldSeqs(_)
FlagFieldSeqs(n) ==
    IF n = 0 THEN {<<>>}
    ELSE LET shorter == FlagFieldSeqs(n - 1)
         IN  shorter \cup
             { Append(p[1], p[2]) :
                 p \in { q \in {x \in shorter : Len(x) = n - 1} \X FlagFieldPool :
                           \A i \in DOMAIN q[1] : q[1][i].ident # q[2].ident } }

\* The inner types of the newtype variants: a command and a sub-command
\* with a flagged field, and a command without one.
WordCommand ==
    StructArgs(<<"W", "o", "r", "d">>, {"Command"}, "Struct",
        << Field(SuffixIdent, Prim("String"), <<DocLine>>, NoAttr, NoAttr),
           Flagged(Field(WordIdent, Prim("String"), <<DocLine>>, NoAttr, NoAttr)) >>)

PlainCommand ==
    StructArgs(<<"P", "l", "a", "i", "n">>, {"Command"}, "Struct",
        << Field(WordIdent, Prim("String"), <<DocLine>>, NoAttr, NoAttr) >>)

WordSub ==
    StructArgs(<<"W", "o", "r", "d", "S", "u", "b">>, {"SubCommand"}, "Struct",
        << Flagged(Field(WordIdent, Prim("String"), <<DocLine>>, NoAttr, NoAttr)) >>)

\* Structs with named fields in the Command role, the SubCommand role and
\* both, a unit struct, and a newtype struct with and without the flag.
FlagStructDecls ==
    { StructArgs(<<"A">>, derives, "Struct", fields) :
        derives \in {{"Command"}, {"SubCommand"}, {"Command", "SubCommand"}},
        fields \in FlagFieldSeqs(MaxFields) }
      \cup { StructArgs(<<"A">>, derives, "Unit", <<>>) :
                derives \in {{"Command"}, {"SubCommand"}} }
      \cup { StructArgs(<<"A">>, derives, "Tuple", <<field>>) :
                derives \in {{"Command"}, {"SubCommand"}},
                field \in {TupleField(ItemType(WordSub)),
                           Flagged(TupleField(ItemType(WordSub)))} }

FlagVariantShapes ==
    { [style |-> "Unit", fields |-> <<>>],
      [style |-> "Struct",
       fields |-> <<Field(WordIdent, Prim("String"), <<DocLine>>, NoAttr, NoAttr)>>],
      [style |-> "Tuple", fields |-> <<TupleField(ItemType(WordCommand))>>],
      [style |-> "Tuple", fields |-> <<TupleField(ItemType(PlainCommand))>>],
      [style |-> "Tuple", fields |-> <<TupleField(ItemType(WordSub))>>] }

FlagVariants ==
    { Variant(ident, sh.style, sh.fields, <<DocLine>>, NoAttr, NoAttr) :
        ident \in {<<"G", "e", "t">>, <<"S", "e", "t">>}, sh \in FlagVariantShapes }
      \cup { Flagged(Variant(ident, sh.style, sh.fields, <<DocLine>>, NoAttr, NoAttr)) :
                ident \in {<<"G", "e", "t">>, <<"S", "e", "t">>}, sh \in FlagVariantShapes }

\* Enums in the three enum roles.
FlagEnumDecls ==
    { EnumArgs(<<"E">>, {derive}, variants) :
        derive \in {"Commands", "Command", "SubCommandGroup"},
        variants \in VariantSeqs(FlagVariants, MaxVariants) }

EntryNames == { SuffixIdent, WordIdent, <<"x">> }

EntryValues ==
    { Val("String", <<"a">>), Val("String", <<"a", "b">>), AutocompleteVal("String", <<"a">>) }

\* Lists of at most n entries.
RECURSIVE EntryLists(_)
EntryLists(n) ==
    IF n = 0 THEN {<<>>}
    ELSE LET shorter == EntryLists(n - 1)
         IN  shorter \cup
             { Append(p[1], p[2]) :
                 p \in {x \in shorter : Len(x) = n - 1}
                         \X { DataOption(name, value) :
                                name \in EntryNames, value \in EntryValues } }

\* The entries of a sub-command invoked through an enum.
NestedEntryLists ==
    { <<DataOption(name, Val("SubCommand", <<DataOption(WordIdent, value)>>))>> :
        name \in {<<"g", "e", "t">>, <<"x">>}, value \in EntryValues }

InitAutocomplete ==
    /\ decl \in FlagStructDecls \cup FlagEnumDecls
    /\ expanded = Nothing
    /\ input = Nothing
    /\ result = Nothing
    /\ pc = "init"

\* The autocomplete types the derives of a declaration emit: none from a
\* derive that recorded an error.
EmittedAutocomplete(args) ==
    { DeriveAutocomplete(derive, args) :
        derive \in { d \in args.derives : DeriveExpand(d, args).emitted } } \ {NoneV}

\* The derives of the declaration expand.
derive_autocomplete ==
    /\ pc = "init"
    /\ expanded' = [errors |-> ProgramExpand(decl).errors,
                    emitted |-> ProgramExpand(decl).emitted,
                    compiles |-> ProgramExpand(decl).compiles,
                    autocomplete |-> EmittedAutocomplete(decl)]
    /\ pc' = "derived"
    /\ UNCHANGED <<decl, input, result>>

\* A call of the generated AutocompleteCommand::from_options.
autocomplete_from_options ==
    /\ pc = "derived"
    /\ expanded.compiles
    /\ "Command" \in decl.derives
    /\ expanded.autocomplete # {}
    /\ \E options \in EntryLists(MaxOptions) \cup NestedEntryLists :
          /\ input' = options
          /\ result' = AutocompleteCommand_from_options(decl, options)
    /\ pc' = "autocomplete_from_options"
    /\ UNCHANGED <<decl, expanded>>

\* A call of the generated AutocompleteSubCommandOrGroup::from_value.
autocomplete_from_value ==
    /\ pc = "derived"
    /\ expanded.compiles
    /\ decl.derives \cap {"SubCommand", "SubCommandGroup"} # {}
    /\ expanded.autocomplete # {}
    /\ \E value \in {Val("SubCommand", options) : options \in EntryLists(MaxOptions)}
                        \cup {Val("SubCommandGroup", <<>>), Val("String", <<"a">>)} :
          /\ input' = value
          /\ result' = AutocompleteSubCommandOrGroup_from_value(decl, value)
    /\ pc' = "autocomplete_from_value"
    /\ UNCHANGED <<decl, expanded>>

\* A call of the generated AutocompleteCommands::from_command_data.
autocomplete_from_command_data ==
    /\ pc = "derived"
    /\ expanded.compiles
    /\ "Commands" \in decl.derives
    /\ expanded.autocomplete # {}
    /\ \E data \in { CommandData(name, options) :
                        name \in {<<"g", "e", "t">>, <<"s", "e", "t">>, <<"x">>},
                        options \in EntryLists(MaxOptions) } :
          /\ input' = data
          /\ result' = AutocompleteCommands_from_command_data(decl, data)
    /\ pc' = "autocomplete_from_command_data"
    /\ UNCHANGED <<decl, expanded>>

\* A call of the generated Commands::from_command_data of an enum that has
\* an autocomplete counterpart, on the same data.
commands_from_command_data ==
    /\ pc = "derived"
    /\ expanded.compiles
    /\ "Commands" \in decl.derives
    /\ expanded.autocomplete # {}
    /\ \E data \in { CommandData(name, options) :
                        name \in {<<"g", "e", "t">>, <<"s", "e", "t">>, <<"x">>},
                        options \in EntryLists(MaxOptions) } :
          /\ input' = data
          /\ result' = Commands_from_command_data(decl, data)
    /\ pc' = "from_command_data"
    /\ UNCHANGED <<decl, expanded>>

NextAutocomplete ==
    \/ derive_autocomplete
    \/ autocomplete_from_options
    \/ autocomplete_from_value
    \/ autocomplete_from_command_data
    \/ commands_from_command_data

SpecAutocomplete == InitAutocomplete /\ [][NextAutocomplete]_vars

(***************************************************************************)
(* Properties of the autocomplete parsers.                                 *)
(***************************************************************************)
\* The generated parser of a struct with named fields has walked a list of
\* entries: the list it walked.
ReachedFieldAutocomplete ==
    /\ decl.data = "Struct"
    /\ \/ pc = "autocomplete_from_options"
       \/ pc = "autocomplete_from_value" /\ input.k = "SubCommand"

AutocompleteEntries == IF pc = "autocomplete_from_options" THEN input ELSE input.v

\* The entries carrying the autocomplete marker.
MarkedEntries(options) == { i \in DOMAIN options : options[i].value.k = "Autocomplete" }

FirstMarked(options) ==
    CHOOSE i \in MarkedEntries(options) : \A j \in MarkedEntries(options) : i <= j

\* The entries naming no declared field.
UndeclaredEntries(options) ==
    { i \in DOMAIN options :
        \A f \in DOMAIN decl.fields : Field_name(decl.fields[f]) # options[i].name }

\* The flagged fields a name denotes.
FlaggedFieldsNamed(name) ==
    { f \in DOMAIN decl.fields :
        decl.fields[f].autocomplete /\ Field_name(decl.fields[f]) = name }

\* C12 as stated: the first marked entry decides by its name.  The name of
\* a flagged field yields that field's variant, every other name yields
\* UnknownAutocompleteOption(name), and a list without a marked entry yields
\* MissingAutocompleteOption.
C12_MarkedEntryDispatch ==
    ReachedFieldAutocomplete =>
        IF MarkedEntries(AutocompleteEntries) = {}
        THEN result = Err(MissingAutocompleteOption)
        ELSE IF FlaggedFieldsNamed(
                    AutocompleteEntries[FirstMarked(AutocompleteEntries)].name) # {}
             THEN /\ result.k = "Ok"
                  /\ \E f \in FlaggedFieldsNamed(
                                 AutocompleteEntries[FirstMarked(AutocompleteEntries)].name) :
                        result.v.k = autocomplete_variant_ident(decl.fields[f])
             ELSE result = Err(UnknownAutocompleteOption(
                                  AutocompleteEntries[FirstMarked(AutocompleteEntries)].name))

\* C12, amended: an entry naming no declared field, marked or not, yields
\* UnknownCommandOption with the name of the first such entry.  Otherwise
\* the first marked entry decides by its name: the name of a flagged field
\* yields that field's variant or the error of a field initialiser
\* (never one of the three dispatch errors), the name of a field without
\* the flag yields UnknownAutocompleteOption(name), and a list without a
\* marked entry yields MissingAutocompleteOption.
C12_DeclaredMarkedEntryDispatch ==
    ReachedFieldAutocomplete =>
        IF UndeclaredEntries(AutocompleteEntries) # {}
        THEN \E i \in UndeclaredEntries(AutocompleteEntries) :
                /\ \A j \in UndeclaredEntries(AutocompleteEntries) : i <= j
                /\ result = Err(UnknownCommandOption(AutocompleteEntries[i].name))
        ELSE IF MarkedEntries(AutocompleteEntries) = {}
        THEN result = Err(MissingAutocompleteOption)
        ELSE IF FlaggedFieldsNamed(
                    AutocompleteEntries[FirstMarked(AutocompleteEntries)].name) # {}
             THEN IF result.k = "Ok"
                  THEN \E f \in FlaggedFieldsNamed(
                                   AutocompleteEntries[FirstMarked(AutocompleteEntries)].name) :
                          result.v.k = autocomplete_variant_ident(decl.fields[f])
                  ELSE result.v.k \notin {"UnknownAutocompleteOption",
                                          "MissingAutocompleteOption",
                                          "UnknownCommandOption"}
             ELSE result = Err(UnknownAutocompleteOption(
                                  AutocompleteEntries[FirstMarked(AutocompleteEntries)].name))

\* Two flagged fields and a marked entry naming the second, after an
\* unmarked entry naming the first: the variant of the second field.
C12_Witness ==
    /\ ReachedFieldAutocomplete
    /\ Len(decl.fields) = 2
    /\ \A f \in DOMAIN decl.fields : decl.fields[f].autocomplete
    /\ Len(AutocompleteEntries) = 2
    /\ MarkedEntries(AutocompleteEntries) = {2}
    /\ AutocompleteEntries[1].name = Field_name(decl.fields[1])
    /\ AutocompleteEntries[2].name = Field_name(decl.fields[2])
    /\ result.k = "Ok"
    /\ result.v.k = autocomplete_variant_ident(decl.fields[2])

\* The derives of a struct with named fields, at least one of them flagged,
\* have expanded and emitted.
EmittedFieldAutocomplete ==
    /\ pc # "init"
    /\ decl.data = "Struct" /\ decl.style = "Struct"
    /\ expanded.emitted
    /\ \E f \in DOMAIN decl.fields : decl.fields[f].autocomplete

\* The emitted autocomplete enum holds a variant named after field f whose
\* field f has type own and whose every other field j has type
\* PartialOption<declared type of j>.
HasVariantOf(enum, f, own) ==
    \E n \in DOMAIN enum.variants :
        /\ enum.variants[n].ident = autocomplete_variant_ident(decl.fields[f])
        /\ DOMAIN enum.variants[n].fields = DOMAIN decl.fields
        /\ \A j \in DOMAIN decl.fields :
              /\ enum.variants[n].fields[j].ident = decl.fields[j].ident
              /\ enum.variants[n].fields[j].ty =
                    IF j = f THEN own ELSE PartialOptionOf(decl.fields[j].ty)

\* C13 as stated: for each flagged field the autocomplete enum has one
\* variant in which that field has its own declared type and every sibling
\* field of declared type ty has type PartialOption<ty>.
C13_OwnDeclaredType ==
    EmittedFieldAutocomplete =>
        \A at \in expanded.autocomplete :
            /\ at.v.data = "Enum"
            /\ Len(at.v.variants) =
                  Cardinality({f \in DOMAIN decl.fields : decl.fields[f].autocomplete})
            /\ \A f \in DOMAIN decl.fields :
                  decl.fields[f].autocomplete => HasVariantOf(at.v, f, decl.fields[f].ty)

\* C13, amended: for each flagged field the autocomplete enum has one
\* variant in which that field has type String, whatever type it was
\* declared with, and every sibling field of declared type ty has type
\* PartialOption<ty>; the enum is emitted and has no other variant.
C13_OwnTypeString ==
    EmittedFieldAutocomplete =>
        /\ expanded.autocomplete # {}
        /\ \A at \in expanded.autocomplete :
              /\ at.v.data = "Enum"
              /\ at.v.ident = autocomplete_ident(decl.ident)
              /\ Len(at.v.variants) =
                    Cardinality({f \in DOMAIN decl.fields : decl.fields[f].autocomplete})
              /\ \A f \in DOMAIN decl.fields :
                    decl.fields[f].autocomplete => HasVariantOf(at.v, f, Prim("String"))

\* A struct with a flagged field declared i64 beside an unflagged one
\* declared i64: the enum is emitted with the one variant.
C13_Witness ==
    /\ EmittedFieldAutocomplete
    /\ Len(decl.fields) = 2
    /\ decl.fields[1].autocomplete /\ decl.fields[1].ty = Prim("i64")
    /\ ~decl.fields[2].autocomplete /\ decl.fields[2].ty = Prim("i64")
    /\ \E at \in expanded.autocomplete :
          /\ Len(at.v.variants) = 1
          /\ at.v.variants[1].fields[1].ty = Prim("String")
          /\ at.v.variants[1].fields[2].ty = PartialOptionOf(Prim("i64"))

\* The derives of an enum have expanded.
ExpandedEnum == pc # "init" /\ decl.data = "Enum"

\* The flagged variants of the given shape.
FlaggedVariantsOf(style) ==
    { i \in DOMAIN decl.variants :
        decl.variants[i].autocomplete /\ decl.variants[i].style = style }

\* How often a message occurs among the reported errors.
Reported(message) ==
    Cardinality({ n \in DOMAIN expanded.errors : expanded.errors[n] = message })

\* C14: in each of the enum roles Commands, Command and SubCommandGroup a
\* flag on a struct-shape variant or on a unit variant is reported as a
\* compile error, once per such variant, and nothing is emitted; a flag on a
\* single-field tuple variant is not reported.
C14_FlagOnlyOnTupleVariants ==
    ExpandedEnum =>
        /\ Reported("#[command(autocomplete)] is not supported on struct variants")
              = Cardinality(FlaggedVariantsOf("Struct"))
        /\ Reported("#[command(autocomplete)] is not supported on unit variants")
              = Cardinality(FlaggedVariantsOf("Unit"))
        /\ Len(expanded.errors)
              = Cardinality(FlaggedVariantsOf("Struct")) + Cardinality(FlaggedVariantsOf("Unit"))
        /\ (FlaggedVariantsOf("Struct") \cup FlaggedVariantsOf("Unit") # {})
              => (~expanded.emitted /\ ~expanded.compiles /\ expanded.autocomplete = {})
        /\ (FlaggedVariantsOf("Struct") \cup FlaggedVariantsOf("Unit") = {})
              => expanded.emitted

\* A sub-command group with a flagged struct-shape variant before a flagged
\* tuple variant: the one error, for the struct-shape variant.
C14_Witness ==
    /\ ExpandedEnum
    /\ decl.derives = {"SubCommandGroup"}
    /\ Len(decl.variants) = 2
    /\ FlaggedVariantsOf("Struct") = {1}
    /\ FlaggedVariantsOf("Tuple") = {2}
    /\ expanded.errors = <<"#[command(autocomplete)] is not supported on struct variants">>
    /\ ~expanded.emitted

\* Some field of the struct, or some variant of the enum, carries the flag.
CarriesFlag ==
    \/ \E f \in DOMAIN decl.fields : decl.fields[f].autocomplete
    \/ \E i \in DOMAIN decl.variants : decl.variants[i].autocomplete

\* A field of the struct, or a single-field tuple variant of the enum,
\* carries the flag.
CarriesFlagWhereSupported ==
    \/ \E f \in DOMAIN decl.fields : decl.fields[f].autocomplete
    \/ FlaggedVariantsOf("Tuple") # {}

\* C15 as stated: in every role the autocomplete counterpart is emitted
\* exactly when at least one field or variant carries the flag; without a
\* flag, and for unit shapes, nothing is emitted and expansion succeeds.
C15_EmittedIffFlagged ==
    pc # "init" =>
        /\ expanded.autocomplete # {} <=> CarriesFlag
        /\ (~CarriesFlag \/ decl.style = "Unit")
              => (expanded.autocomplete = {} /\ expanded.emitted)

\* C15, amended: in every role the autocomplete counterpart is emitted
\* exactly when expansion records no error and a field, or a single-field
\* tuple variant, carries the flag; a flag on a struct-shape or unit variant
\* makes expansion fail, and then nothing is emitted.  Without a flag, and
\* for unit structs, nothing is emitted beside the trait implementation and
\* expansion succeeds.
C15_EmittedIffFlaggedAndExpanded ==
    pc # "init" =>
        /\ expanded.autocomplete # {}
              <=> (expanded.errors = <<>> /\ CarriesFlagWhereSupported)
        /\ (FlaggedVariantsOf("Struct") \cup FlaggedVariantsOf("Unit") # {})
              => (expanded.errors # <<>> /\ ~expanded.emitted)
        /\ (~CarriesFlag \/ decl.style = "Unit")
              => (expanded.autocomplete = {} /\ expanded.emitted)

\* An enum in the Commands role whose only flagged variant is a tuple
\* variant beside an unflagged unit variant: the counterpart is emitted with
\* the one variant, and a call of its parser reaches that variant.
C15_Witness ==
    /\ pc = "autocomplete_from_command_data"
    /\ decl.derives = {"Commands"}
    /\ Len(decl.variants) = 2
    /\ FlaggedVariantsOf("Tuple") = {1}
    /\ decl.variants[2].style = "Unit" /\ ~decl.variants[2].autocomplete
    /\ \E at \in expanded.autocomplete : Len(at.v.variants) = 1
    /\ result.k = "Ok"

\* One of the two parsers of a Commands enum has been called on data.
ReachedCommandsParser == pc \in {"from_command_data", "autocomplete_from_command_data"}

\* C25: Commands::from_command_data answers data carrying an autocomplete
\* marker with UnexpectedAutocompleteOption, AutocompleteCommands answers
\* data carrying none with MissingAutocompleteOption, each whatever the
\* command name is, and on no data do both parsers succeed.
C25_ParsersExclusive ==
    /\ (pc = "from_command_data" /\ find_option(input.options))
          => result = Err(UnexpectedAutocompleteOption)
    /\ (pc = "autocomplete_from_command_data" /\ ~find_option(input.options))
          => result = Err(MissingAutocompleteOption)
    /\ ReachedCommandsParser =>
          ~ /\ Commands_from_command_data(decl, input).k = "Ok"
            /\ AutocompleteCommands_from_command_data(decl, input).k = "Ok"

\* Data naming no variant and carrying no marker, handed to the
\* autocomplete parser: the missing marker is reported, not the name.
C25_Witness ==
    /\ pc = "autocomplete_from_command_data"
    /\ input.name = <<"x">>
    /\ ~find_option(input.options)
    /\ Commands_from_command_data(decl, input) = Err(UnknownCommand(<<"x">>))
    /\ result = Err(MissingAutocompleteOption)

\* The parser of a struct with named fields has reached the initialisers
\* of a variant: every entry names a field, and the first marked entry
\* names a flagged one.
ReachedInitialisers ==
    /\ ReachedFieldAutocomplete
    /\ decl.style = "Struct"
    /\ UndeclaredEntries(AutocompleteEntries) = {}
    /\ MarkedEntries(AutocompleteEntries) # {}
    /\ FlaggedFieldsNamed(AutocompleteEntries[FirstMarked(AutocompleteEntries)].name) # {}

\* The flagged field the first marked entry names.
FocusedField ==
    CHOOSE f \in FlaggedFieldsNamed(
                    AutocompleteEntries[FirstMarked(AutocompleteEntries)].name) : TRUE

\* The other fields, each of type PartialOption<ty> in the variant.
SiblingFields == DOMAIN decl.fields \ {FocusedField}

EntriesNamed(j) ==
    { i \in DOMAIN AutocompleteEntries :
        AutocompleteEntries[i].name = Field_name(decl.fields[j]) }

\* What the initialiser of sibling j is handed: nothing when no entry names
\* it, else the value of the last such entry, the typed text of a flagged
\* sibling as a String value.
SiblingSlot(j) ==
    IF EntriesNamed(j) = {} THEN NoneV
    ELSE LET value == AutocompleteEntries[
                          CHOOSE i \in EntriesNamed(j) :
                              \A k \in EntriesNamed(j) : k <= i].value
         IN  IF decl.fields[j].autocomplete /\ value.k = "Autocomplete"
             THEN SomeV(Val("String", value.v.value))
             ELSE SomeV(value)

FullParse(j) == FromValue(decl.fields[j].ty, SiblingSlot(j))

PartialParse(j) == FromValue(PartialType(decl.fields[j].ty), SiblingSlot(j))

BothFail(j) == FullParse(j).k = "Err" /\ PartialParse(j).k = "Err"

\* C29: in the variant of the focused field, a sibling of declared type T
\* holds Value(x) when T parses its slot to x and Partial(p, e) when T fails
\* with e and T::Partial parses it to p; the parse fails only when for some
\* sibling both fail, and the error is then the one of the Partial parse of
\* the first such sibling.  In particular a sibling of a non-optional type
\* that no entry names makes the parse fail, with
\* MissingRequiredCommandOption unless an earlier sibling has failed.
C29_PartialSiblings ==
    (ReachedInitialisers /\ \A j \in DOMAIN decl.fields : decl.fields[j].with = NoAttr) =>
        /\ result.k = "Err" <=> \E j \in SiblingFields : BothFail(j)
        /\ result.k = "Err" =>
              \E j \in SiblingFields :
                  /\ BothFail(j)
                  /\ \A i \in SiblingFields : BothFail(i) => j <= i
                  /\ result = PartialParse(j)
        /\ result.k = "Ok" =>
              \A j \in SiblingFields :
                  result.v.v[j] =
                      IF FullParse(j).k = "Ok" THEN TV("Value", FullParse(j).v)
                      ELSE TV("Partial", <<PartialParse(j).v, FullParse(j).v>>)
        /\ \A j \in SiblingFields :
              (EntriesNamed(j) = {} /\ decl.fields[j].ty.k # "Option") =>
                  /\ result.k = "Err"
                  /\ \/ result = Err(MissingRequiredCommandOption)
                     \/ \E i \in SiblingFields : i < j /\ BothFail(i)

\* A struct with a sibling declared i64 before the flagged field, and the
\* marked entry alone: the sibling is missing.
C29_Witness ==
    /\ ReachedInitialisers
    /\ Len(decl.fields) = 2
    /\ FocusedField = 2
    /\ decl.fields[1].ty = Prim("i64")
    /\ decl.fields[1].with = NoAttr
    /\ Len(AutocompleteEntries) = 1
    /\ result = Err(MissingRequiredCommandOption)

\* An enum deriving SubCommandGroup with a flagged variant, every variant
\* of which meets what the claimed delegation asks of it: a newtype variant
\* wraps a type that compiles and implements SubCommand, and a flagged one
\* wraps a type whose derive of SubCommand emitted an autocomplete parser.
IsFlaggedGroup ==
    /\ decl.data = "Enum"
    /\ decl.derives = {"SubCommandGroup"}
    /\ \E i \in DOMAIN decl.variants : decl.variants[i].autocomplete
    /\ \A i \in DOMAIN decl.variants :
          /\ decl.variants[i].style = "Tuple" =>
                /\ ImplementsSubCommand(decl.variants[i].fields[1].ty)
                /\ TypeCompiles(decl.variants[i].fields[1].ty)
          /\ decl.variants[i].autocomplete =>
                /\ decl.variants[i].style = "Tuple"
                /\ SupportsAutocomplete(decl.variants[i].fields[1].ty, {"SubCommand"})

\* C30: the autocomplete parser of a sub-command group hands the value of
\* the single nested entry to the AutocompleteSubCommandOrGroup::from_value
\* of the flagged newtype variant's inner type, and wraps the outcome in
\* the variant; so a group whose flagged variants wrap sub-commands with
\* an autocomplete parser has such a parser.
C30_GroupDelegatesToSubCommand ==
    /\ (pc # "init" /\ IsFlaggedGroup /\ expanded.errors = <<>>) => expanded.compiles
    /\ (/\ pc = "autocomplete_from_value"
        /\ decl.data = "Enum"
        /\ input.k = "SubCommandGroup"
        /\ Len(input.v) = 1
        /\ MatchAutocompleteVariant(decl.variants, input.v[1].name) # 0) =>
              result = MapCtor(
                          decl.variants[MatchAutocompleteVariant(
                                            decl.variants, input.v[1].name)].ident,
                          AutocompleteSubCommandOrGroup_from_value(
                              decl.variants[MatchAutocompleteVariant(
                                                decl.variants, input.v[1].name)].fields[1].ty.v,
                              input.v[1].value))

\* A group with one flagged newtype variant around a sub-command that has
\* an autocomplete parser: the derive reports nothing, and the compiler
\* rejects what it emitted.
C30_Witness ==
    /\ pc = "derived"
    /\ IsFlaggedGroup
    /\ Len(decl.variants) = 1
    /\ decl.variants[1].fields[1].ty = ItemType(WordSub)
    /\ expanded.errors = <<>>
    /\ expanded.autocomplete # {}
    /\ ~expanded.compiles

(***************************************************************************)
(* Expansion errors: declarations whose fields and variants are            *)
(* documented, undocumented or documented with a blank comment, with and   *)
(* without the autocomplete flag, and choice enums with and without        *)
(* option_type; expansion, then the generated schema functions.            *)
(***************************************************************************)
\* The doc attribute of a comment `/// ` holding nothing but a space.
BlankLine == <<" ">>

\* No doc comment, a blank one, and one with text.
DocAttrs == { <<>>, <<BlankLine>>, <<DocLine>> }

DocFields ==
    { Field(ident, Prim("String"), attrs, NoAttr, NoAttr) :
        ident \in {SuffixIdent, WordIdent}, attrs \in DocAttrs }
      \cup { Flagged(Field(ident, Prim("String"), attrs, NoAttr, NoAttr)) :
                ident \in {SuffixIdent, WordIdent}, attrs \in DocAttrs }

RECURSIVE DocFieldSeqs(_)
DocFieldSeqs(n) ==
    IF n = 0 THEN {<<>>}
    ELSE LET shorter == DocFieldSeqs(n - 1)
         IN  shorter \cup
             { Append(p[1], p[2]) :
                 p \in { q \in {x \in shorter : Len(x) = n - 1} \X DocFields :
                           \A i \in DOMAIN q[1] : q[1][i].ident # q[2].ident } }

DocStructDecls ==
    { StructArgs(<<"A">>, {derive}, "Struct", fields) :
        derive \in {"Command", "SubCommand"}, fields \in DocFieldSeqs(MaxFields) }
      \cup { StructArgs(<<"A">>, {derive}, "Unit", <<>>) : derive \in {"Command", "SubCommand"} }

DocVariantShapes ==
    { [style |-> "Unit", fields |-> <<>>, context_menu |-> NoAttr],
      [style |-> "Unit", fields |-> <<>>, context_menu |-> Attr("User")],
      [style |-> "Tuple", fields |-> <<TupleField(ItemType(WordSub))>>,
       context_menu |-> NoAttr] }
      \cup { [style |-> "Struct",
              fields |-> <<Field(WordIdent, Prim("String"), attrs, NoAttr, NoAttr)>>,
              context_menu |-> NoAttr] : attrs \in DocAttrs }

DocVariants ==
    { Variant(ident, sh.style, sh.fields, attrs, NoAttr, sh.context_menu) :
        ident \in {<<"G", "e", "t">>, <<"S", "e", "t">>},
        sh \in DocVariantShapes, attrs \in DocAttrs }
      \cup { Flagged(Variant(ident, sh.style, sh.fields, attrs, NoAttr, sh.context_menu)) :
                ident \in {<<"G", "e", "t">>, <<"S", "e", "t">>},
                sh \in DocVariantShapes, attrs \in DocAttrs }

DocEnumDecls ==
    { EnumArgs(<<"E">>, {derive}, variants) :
        derive \in {"Commands", "Command", "SubCommandGroup"},
        variants \in VariantSeqs(DocVariants, MaxVariants) }

DocChoiceDecls ==
    { ChoiceArgs(<<"E">>, option_type,
                 <<ChoiceVariant(<<"G", "o", "l", "d">>, NoAttr, NoAttr)>>) :
        option_type \in {NoAttr, Attr("String")} }

\* Doc comments of several lines: blank lines, lines with a leading and
\* lines with a trailing space.
MaxDocLines == 3

DocLines == { BlankLine, DocLine, <<"e", " ">> }

RECURSIVE DocLineSeqs(_)
DocLineSeqs(n) ==
    IF n = 0 THEN {<<>>}
    ELSE LET shorter == DocLineSeqs(n - 1)
         IN  shorter \cup
             { Append(p[1], p[2]) : p \in {x \in shorter : Len(x) = n - 1} \X DocLines }

\* A struct with one field, and a group with one unit variant, documented
\* by such comments.
ParagraphDecls ==
    { StructArgs(<<"A">>, {"Command"}, "Struct",
                 <<Field(WordIdent, Prim("String"), attrs, NoAttr, NoAttr)>>) :
        attrs \in DocLineSeqs(MaxDocLines) }
      \cup { EnumArgs(<<"E">>, {"SubCommandGroup"},
                      <<Variant(<<"G", "e", "t">>, "Unit", <<>>, attrs, NoAttr, NoAttr)>>) :
                attrs \in DocLineSeqs(MaxDocLines) }

\* The declaration is handed to #[derive(BasicOption)].
IsChoiceDecl(args) == "option_type" \in DOMAIN args

InitExpansion ==
    /\ decl \in DocStructDecls \cup DocEnumDecls \cup DocChoiceDecls \cup ParagraphDecls
    /\ expanded = Nothing
    /\ input = Nothing
    /\ result = Nothing
    /\ pc = "init"

\* The derives of the declaration expand.
derive_expansion ==
    /\ pc = "init"
    /\ expanded' = IF IsChoiceDecl(decl) THEN BasicOptionExpand(decl)
                   ELSE ProgramExpand(decl)
    /\ pc' = "derived"
    /\ UNCHANGED <<decl, input, result>>

\* A call of the generated Command::create_command.
expansion_create_command ==
    /\ pc = "derived"
    /\ expanded.compiles
    /\ ~IsChoiceDecl(decl)
    /\ "Command" \in decl.derives
    /\ \E name \in {<<"c">>, <<"n">>} :
          /\ input' = name
          /\ result' = Command_create_command(decl, name, <<"d">>)
    /\ pc' = "create_command"
    /\ UNCHANGED <<decl, expanded>>

\* A call of the generated Commands::create_commands.
expansion_create_commands ==
    /\ pc = "derived"
    /\ expanded.compiles
    /\ ~IsChoiceDecl(decl)
    /\ "Commands" \in decl.derives
    /\ input' = <<>>
    /\ result' = Commands_create_commands(decl)
    /\ pc' = "create_commands"
    /\ UNCHANGED <<decl, expanded>>

\* A call of the generated SubCommandGroup::create_option, or of
\* BasicOption::create_option.
expansion_create_option ==
    /\ pc = "derived"
    /\ expanded.compiles
    /\ IF IsChoiceDecl(decl) THEN TRUE
       ELSE decl.derives \cap {"SubCommand", "SubCommandGroup"} # {}
    /\ \E name \in {<<"c">>, <<"n">>} :
          /\ input' = name
          /\ result' = IF IsChoiceDecl(decl)
                       THEN CreateOption(Derived(decl), name, <<"d">>)
                       ELSE SubCommandGroup_create_option(decl, name, <<"d">>)
    /\ pc' = "create_option"
    /\ UNCHANGED <<decl, expanded>>

NextExpansion ==
    \/ derive_expansion
    \/ expansion_create_command
    \/ expansion_create_commands
    \/ expansion_create_option

SpecExpansion == InitExpansion /\ [][NextExpansion]_vars

(***************************************************************************)
(* Properties of expansion errors.                                         *)
(***************************************************************************)
\* The documentation is missing or empty: no doc comment, or none with
\* anything but white space.
LacksDocumentation(attrs) == \A n \in DOMAIN attrs : Trim(attrs[n]) = <<>>

\* The declaration has a named field, a variant, or a named field of a
\* variant, whose documentation is missing or empty.
HasUndocumented ==
    /\ ~IsChoiceDecl(decl)
    /\ \/ \E f \in DOMAIN decl.fields : LacksDocumentation(decl.fields[f].attrs)
       \/ \E i \in DOMAIN decl.variants :
             \/ LacksDocumentation(decl.variants[i].attrs)
             \/ /\ decl.variants[i].style = "Struct"
                /\ \E f \in DOMAIN decl.variants[i].fields :
                      LacksDocumentation(decl.variants[i].fields[f].attrs)

\* The descriptions of a schema node and of the nodes below it.
RECURSIVE OptionDescriptions(_)
OptionDescriptions(option) ==
    {option.description}
        \cup UNION { OptionDescriptions(option.options[n]) : n \in DOMAIN option.options }

CommandDescriptions(command) ==
    (IF command.description = NoneV THEN {} ELSE {command.description.v})
        \cup UNION { OptionDescriptions(command.options[n]) : n \in DOMAIN command.options }

\* The descriptions in the schema a generated function returned.
EmittedDescriptions ==
    CASE pc = "create_command" -> CommandDescriptions(result)
      [] pc = "create_commands" ->
            UNION { CommandDescriptions(result[n]) : n \in DOMAIN result }
      [] pc = "create_option" -> OptionDescriptions(result)
      [] OTHER -> {}

\* C17 as stated: when the documentation of a field or variant is missing
\* or empty, expansion fails with a compile error, and no generated schema
\* carries an empty description.
C17_DocumentationRequired ==
    pc # "init" =>
        /\ HasUndocumented => (expanded.errors # <<>> /\ ~expanded.emitted)
        /\ <<>> \notin EmittedDescriptions

\* A struct whose field is documented with a blank comment expands without
\* error, and the schema it creates describes the option with the empty
\* string.
C17_Witness ==
    /\ pc = "create_command"
    /\ decl.data = "Struct"
    /\ Len(decl.fields) = 1
    /\ decl.fields[1].attrs = <<BlankLine>>
    /\ expanded.errors = <<>>
    /\ result.options[1].description = <<>>

\* The named fields, of the struct and of its struct-shape variants, that
\* carry no doc comment.
UndocumentedFieldCount ==
    Cardinality({ f \in DOMAIN decl.fields : decl.fields[f].attrs = <<>> })
        + Cardinality({ p \in (DOMAIN decl.variants) \X (1 .. MaxFields) :
                          /\ decl.variants[p[1]].style = "Struct"
                          /\ p[2] \in DOMAIN decl.variants[p[1]].fields
                          /\ decl.variants[p[1]].fields[p[2]].attrs = <<>> })

\* The variants whose description is read from a doc comment they do not
\* carry.
UndocumentedVariantCount ==
    Cardinality({ i \in DOMAIN decl.variants :
                    /\ decl.variants[i].attrs = <<>>
                    /\ ~ /\ "Commands" \in decl.derives
                         /\ decl.variants[i].style = "Unit"
                         /\ decl.variants[i].context_menu # NoAttr })

\* C18: during the expansion of one declaration every problem is recorded
\* and none ends the walk: the errors reported are one per undocumented
\* field, one per undocumented variant and one per variant misusing the
\* autocomplete flag, and a missing option_type is reported; when at least
\* one problem was recorded the implementation is not emitted, and otherwise
\* it is.
C18_AllProblemsReported ==
    pc # "init" =>
        IF IsChoiceDecl(decl)
        THEN /\ decl.option_type = NoAttr
                  <=> Reported("missing #[option(option_type = ...)] attribute") > 0
             /\ expanded.emitted <=> expanded.errors = <<>>
             /\ decl.option_type = NoAttr => ~expanded.emitted
        ELSE /\ Reported(MissingDocumentation)
                  = UndocumentedFieldCount + UndocumentedVariantCount
             /\ Reported("#[command(autocomplete)] is not supported on struct variants")
                  = Cardinality(FlaggedVariantsOf("Struct"))
             /\ Reported("#[command(autocomplete)] is not supported on unit variants")
                  = Cardinality(FlaggedVariantsOf("Unit"))
             /\ Len(expanded.errors)
                  = UndocumentedFieldCount + UndocumentedVariantCount
                      + Cardinality(FlaggedVariantsOf("Struct"))
                      + Cardinality(FlaggedVariantsOf("Unit"))
             /\ expanded.emitted <=> expanded.errors = <<>>
             /\ expanded.errors # <<>> => ~expanded.compiles

\* An enum in the Command role whose first variant is an undocumented,
\* flagged unit variant and whose second is a struct-shape variant with an
\* undocumented field: three errors of two kinds, nothing emitted.
C18_Witness ==
    /\ pc = "derived"
    /\ ~IsChoiceDecl(decl)
    /\ decl.derives = {"Command"}
    /\ Len(decl.variants) = 2
    /\ decl.variants[1].style = "Unit" /\ decl.variants[2].style = "Struct"
    /\ Reported(MissingDocumentation) = 2
    /\ Reported("#[command(autocomplete)] is not supported on unit variants") = 1
    /\ Len(expanded.errors) = 3
    /\ ~expanded.emitted

\* The doc lines of the one documented item of a declaration documented by
\* a comment of several lines, and the description its schema node carries.
ParagraphLines ==
    IF decl.data = "Struct" THEN decl.fields[1].attrs ELSE decl.variants[1].attrs

ParagraphDescription == result.options[1].description

ReachedParagraph ==
    /\ decl \in ParagraphDecls
    /\ pc \in {"create_command", "create_option"}

\* C23: the description is free of leading and trailing spaces, and when
\* every line has text it is the lines in source order, each trimmed,
\* with exactly one space between neighbours.
C23_TrimmedSpaceJoined ==
    ReachedParagraph =>
        /\ Trim(ParagraphDescription) = ParagraphDescription
        /\ (\A n \in DOMAIN ParagraphLines : Trim(ParagraphLines[n]) # <<>>) =>
              ParagraphDescription =
                  JoinWith([n \in DOMAIN ParagraphLines |-> Trim(ParagraphLines[n])], <<" ">>)

\* A comment whose last line is blank: the description ends with a space.
C23_Witness ==
    /\ ReachedParagraph
    /\ ParagraphLines = <<DocLine, BlankLine>>
    /\ ParagraphDescription = <<"d", ".", " ">>

(***************************************************************************)
(* Delegation: structs whose fields name a module with                     *)
(* #[command(with = path)], registered, parsed, and parsed for             *)
(* autocomplete.                                                           *)
(***************************************************************************)
\* Fields handed to a `with` module, with and without the autocomplete
\* flag, beside fields parsed by their own type.
WithFieldPool ==
    { Field(ident, Prim("i64"), <<DocLine>>, NoAttr, Attr("or_default")) :
        ident \in {SuffixIdent, WordIdent} }
      \cup { Flagged(Field(ident, Prim("i64"), <<DocLine>>, NoAttr, Attr("or_default"))) :
                ident \in {SuffixIdent, WordIdent} }
      \cup { Field(ident, ty, <<DocLine>>, NoAttr, NoAttr) :
                ident \in {SuffixIdent, WordIdent}, ty \in {Prim("String"), Prim("i64")} }
      \cup { Flagged(Field(ident, Prim("String"), <<DocLine>>, NoAttr, NoAttr)) :
                ident \in {SuffixIdent, WordIdent} }

WithStructDecls ==
    { StructArgs(<<"A">>, {"Command"}, "Struct", fields) :
        fields \in VariantSeqs(WithFieldPool, MaxFields) }

WithEntryValues ==
    { Val("String", <<"a">>), Val("Integer", 1), AutocompleteVal("String", <<"a">>) }

\* Lists of at most n entries naming the two fields.
RECURSIVE WithEntryLists(_)
WithEntryLists(n) ==
    IF n = 0 THEN {<<>>}
    ELSE LET shorter == WithEntryLists(n - 1)
         IN  shorter \cup
             { Append(p[1], p[2]) :
                 p \in {x \in shorter : Len(x) = n - 1}
                         \X { DataOption(name, value) :
                                name \in {SuffixIdent, WordIdent},
                                value \in WithEntryValues } }

InitWith ==
    /\ decl \in WithStructDecls
    /\ expanded = Nothing
    /\ input = Nothing
    /\ result = Nothing
    /\ pc = "init"

\* The derive of the struct expands.
derive_with ==
    /\ pc = "init"
    /\ expanded' = [errors |-> ProgramExpand(decl).errors,
                    emitted |-> ProgramExpand(decl).emitted,
                    compiles |-> ProgramExpand(decl).compiles,
                    autocomplete |-> EmittedAutocomplete(decl)]
    /\ pc' = "derived"
    /\ UNCHANGED <<decl, input, result>>

\* A call of the generated Command::create_command.
with_create_command ==
    /\ pc = "derived"
    /\ expanded.compiles
    /\ input' = Nothing
    /\ result' = Command_create_command(decl, <<"c">>, <<"d">>)
    /\ pc' = "create_command"
    /\ UNCHANGED <<decl, expanded>>

\* A call of the generated Command::from_options.
with_from_options ==
    /\ pc = "derived"
    /\ expanded.compiles
    /\ \E options \in WithEntryLists(MaxOptions) :
          /\ input' = options
          /\ result' = Command_from_options(decl, options)
    /\ pc' = "from_options"
    /\ UNCHANGED <<decl, expanded>>

\* A call of the generated AutocompleteCommand::from_options.
with_autocomplete_from_options ==
    /\ pc = "derived"
    /\ expanded.compiles
    /\ expanded.autocomplete # {}
    /\ \E options \in WithEntryLists(MaxOptions) :
          /\ input' = options
          /\ result' = AutocompleteCommand_from_options(decl, options)
    /\ pc' = "autocomplete_from_options"
    /\ UNCHANGED <<decl, expanded>>

NextWith ==
    \/ derive_with
    \/ with_create_command
    \/ with_from_options
    \/ with_autocomplete_from_options

SpecWith == InitWith /\ [][NextWith]_vars

(***************************************************************************)
(* Properties of delegation.                                               *)
(***************************************************************************)
\* The fields naming a `with` module.
WithFields == { i \in DOMAIN decl.fields : decl.fields[i].with # NoAttr }

\* with::from_value on the slot the fold leaves for field i.
Delegate(i) == WithFromValue(decl.fields[i].with.v, SlotOf(input, i))

\* The schema node with::create_option gives field i, marked and extended
\* as the field asks.
DelegateOption(i) ==
    builder_methods(
        set_autocomplete(
            WithCreateOption(decl.fields[i].with.v, Field_name(decl.fields[i]),
                             documentation_string(decl.fields[i].attrs).description),
            decl.fields[i].autocomplete),
        decl.fields[i].builder)

\* The value a successful parse holds for field i.
ParsedField(i) == result.v.v[i]

\* C22 as stated: the schema node and the parsed value of a field naming a
\* `with` module come from that module, in the normal parser and in the
\* autocomplete parser alike.
C22_WithEverywhere ==
    /\ pc = "create_command" =>
          \A i \in WithFields : result.options[i] = DelegateOption(i)
    /\ (pc \in {"from_options", "autocomplete_from_options"} /\ result.k = "Ok") =>
          \A i \in WithFields : Ok(ParsedField(i)) = Delegate(i)

\* The text the marked entry carries, as the String option the flagged
\* field's initialiser builds from it.
TypedSlot(i) ==
    IF SlotOf(input, i) # NoneV /\ SlotOf(input, i).v.k = "Autocomplete"
    THEN SomeV(Val("String", SlotOf(input, i).v.v.value))
    ELSE SlotOf(input, i)

\* A field declared after field i does not parse its slot.
LaterFieldFails(i) ==
    \E j \in (i + 1) .. Len(decl.fields) :
        FieldConstructor(decl.fields[j], decl.fields[j].ty, SlotOf(input, j), FALSE).k = "Err"

\* C22, amended: the schema node of a field naming a `with` module always
\* comes from the module, and so does its value in the normal parser, whose
\* result is the module's error, or holds the module's value unless a later
\* field fails, when the entries are all declared and the earlier fields
\* parse.  In the autocomplete parser a field carrying the
\* autocomplete flag is parsed by BasicOption::from_value of the type the
\* chosen variant declares for it, with the marked entry's text as a String
\* option, whatever module it names; a field without the flag is parsed by
\* its module.
C22_WithExceptFlagged ==
    /\ pc = "create_command" =>
          \A i \in WithFields : result.options[i] = DelegateOption(i)
    /\ pc = "from_options" =>
          \A i \in WithFields :
              /\ result.k = "Ok" => Ok(ParsedField(i)) = Delegate(i)
              /\ (UnknownEntries(input) = {} /\ EarlierFieldsParse(input, i)) =>
                    IF Delegate(i).k = "Err" THEN result = Delegate(i)
                    ELSE result.k = "Ok" \/ LaterFieldFails(i)
    /\ (pc = "autocomplete_from_options" /\ result.k = "Ok") =>
          \A i \in WithFields :
              IF decl.fields[i].autocomplete
              THEN \E f \in DOMAIN decl.fields :
                      /\ result.v.k = autocomplete_variant_ident(decl.fields[f])
                      /\ Ok(ParsedField(i)) =
                            FromValue(AutocompleteFieldTypes(decl.fields, f)[i], TypedSlot(i))
              ELSE Ok(ParsedField(i)) = Delegate(i)

\* A flagged field naming a module, given a marked entry: the typed text
\* comes back as a String, which the module would have rejected.
C22_Witness ==
    /\ pc = "autocomplete_from_options"
    /\ Len(decl.fields) = 1
    /\ decl.fields[1].with # NoAttr
    /\ decl.fields[1].autocomplete
    /\ Len(input) = 1
    /\ input[1].value.k = "Autocomplete"
    /\ result.k = "Ok"
    /\ result.v.v[1] = TV("String", <<"a">>)
    /\ Delegate(1).k = "Err"

=============================================================================
